---------------------------- MODULE Spec2Model ----------------------------
(***************************************************************************)
(* A model of g2g-scim-sync's synchronization engine                       *)
(* (src/src/g2g_scim_sync/sync_engine.py): the identity mapper, the diff   *)
(* calculators for users and teams, the change applicator and the          *)
(* synchronize orchestrator.                                               *)
(*                                                                         *)
(* Python strings that the code parses (emails, org-unit names and paths,  *)
(* usernames, slugs) are sequences of one-character strings, so that       *)
(* split / replace / lower are computed and not assumed.  Strings that the *)
(* code only copies and compares (names, descriptions, ids) are atoms.     *)
(* Python's None is the record None.                                       *)
(***************************************************************************)
EXTENDS Integers, Sequences, FiniteSets, TLC

VARIABLES
    pc,               \* position of the current operation
    mode,             \* SpecDiff: which diff calculator is exercised
    config,           \* SyncConfig: create_teams, flatten_ous
    github_config,    \* GitHubConfig: emu_username_suffix and the role tables
    hash_order,       \* iteration order of a Python set of usernames
    dry_run,          \* synchronize's dry_run argument
    sync_ous,         \* synchronize's ou_paths (or [])
    sync_individual,  \* synchronize's individual_users (or [])
    google_users,     \* list[GoogleUser] fetched from the source
    github_users,     \* list[ScimUser] fetched from the target
    google_ous,       \* list[GoogleOU] fetched from the source
    github_teams,     \* list[GitHubTeam] fetched from the target
    user_diffs,       \* list[UserDiff]
    team_diffs,       \* list[TeamDiff]
    idx,              \* loop index of the running for-loop
    stats,            \* self._stats
    calls,            \* log of collaborator calls, oldest first
    faults,           \* log of the faults collaborators raised, oldest first
    warnings,         \* number of "teams not supported" log records
    result,           \* the SyncResult returned, or None
    runs,             \* the SyncResults of the earlier invocations, oldest first
    directory,        \* source directory: the members a group key lists
    nested_groups     \* what get_nested_groups returned, or the fault it raised

vars == <<pc, mode, config, github_config, hash_order, dry_run, sync_ous,
          sync_individual, google_users, github_users, google_ous,
          github_teams, user_diffs, team_diffs, idx, stats, calls, faults,
          warnings, result, runs, directory, nested_groups>>

\* what the steps of one synchronize leave alone
otherVars == <<runs, directory, nested_groups>>

\* Python's None: for an optional record, an optional parsed string, an
\* optional id (ids are positive numbers here) 
None == [none |-> TRUE]
NoneStr == <<"None">>
NoId == 0

(***************************************************************************)
(* Bounds of the model.                                                    *)
(***************************************************************************)
MaxSource == 2      \* source users in one diff
MaxTarget == 2      \* target users in one diff
MaxOUs == 2         \* org-units in one team diff
MaxTeams == 1       \* existing target teams in one team diff
MaxRunSource == 2   \* source users fetched in one synchronize run
MaxRunTarget == 1   \* target users fetched in one synchronize run

(***************************************************************************)
(* Python str methods, on sequences of characters.                         *)
(***************************************************************************)
Upper == <<"A", "B", "C", "D", "E", "O">>
Lowered == <<"a", "b", "c", "d", "e", "o">>

\* str.lower() of one character
LowerChar(c) ==
    IF \E i \in 1..Len(Upper) : Upper[i] = c
    THEN Lowered[CHOOSE i \in 1..Len(Upper) : Upper[i] = c]
    ELSE c

\* str.lower()
Lower(s) == [i \in 1..Len(s) |-> LowerChar(s[i])]

\* str.replace(old, new) for one-character old and new
Replace(s, old, new) == [i \in 1..Len(s) |-> IF s[i] = old THEN new ELSE s[i]]

\* index of the first occurrence of c in s, 0 when absent
Find(s, c) ==
    IF \E i \in 1..Len(s) : s[i] = c
    THEN CHOOSE i \in 1..Len(s) : s[i] = c /\ \A j \in 1..(i - 1) : s[j] # c
    ELSE 0

\* str.split(sep) for a one-character sep: always at least one piece
RECURSIVE Split(_, _)
Split(s, sep) ==
    LET k == Find(s, sep)
    IN  IF k = 0 THEN <<s>>
        ELSE <<SubSeq(s, 1, k - 1)>> \o Split(SubSeq(s, k + 1, Len(s)), sep)

\* str.strip(c) for a one-character c
RECURSIVE LStrip(_, _)
LStrip(s, c) == IF Len(s) > 0 /\ s[1] = c THEN LStrip(Tail(s), c) ELSE s

RECURSIVE RStrip(_, _)
RStrip(s, c) ==
    IF Len(s) > 0 /\ s[Len(s)] = c THEN RStrip(SubSeq(s, 1, Len(s) - 1), c) ELSE s

Strip(s, c) == RStrip(LStrip(s, c), c)

(***************************************************************************)
(* The identity mapper.                                                    *)
(***************************************************************************)
\* a username that keeps the dots of the local part
EmailToUsernameKeepsDots(email) ==
    LET username == Split(email, "@")[1]
    IN  IF github_config.emu_username_suffix # <<>>
        THEN username \o <<"_">> \o github_config.emu_username_suffix
        ELSE username

\* SyncEngine._email_to_username
EmailToUsername(email) ==
    LET username == Replace(Split(email, "@")[1], ".", "-")
    IN  IF github_config.emu_username_suffix # <<>>
        THEN username \o <<"_">> \o github_config.emu_username_suffix
        ELSE username

\* a role determination that looks at the tables in the opposite order
DetermineUserRolesGuestFirst(email) ==
    IF email \in github_config.guest_collaborators
    THEN <<[value |-> "guest_collaborator", primary |-> TRUE]>>
    ELSE IF email \in github_config.billing_managers
    THEN <<[value |-> "billing_manager", primary |-> TRUE]>>
    ELSE IF email \in github_config.enterprise_owners
    THEN <<[value |-> "enterprise_owner", primary |-> TRUE]>>
    ELSE <<[value |-> "user", primary |-> TRUE]>>

\* SyncEngine._determine_user_roles: the first matching table wins
DetermineUserRoles(email) ==
    IF email \in github_config.enterprise_owners
    THEN <<[value |-> "enterprise_owner", primary |-> TRUE]>>
    ELSE IF email \in github_config.billing_managers
    THEN <<[value |-> "billing_manager", primary |-> TRUE]>>
    ELSE IF email \in github_config.guest_collaborators
    THEN <<[value |-> "guest_collaborator", primary |-> TRUE]>>
    ELSE <<[value |-> "user", primary |-> TRUE]>>

\* SyncEngine._google_user_to_scim
GoogleUserToScim(user) ==
    [id          |-> NoId,
     user_name   |-> EmailToUsername(user.primary_email),
     emails      |-> <<[value |-> user.primary_email, primary |-> TRUE, type |-> "None"]>>,
     name        |-> [givenName  |-> user.given_name,
                      familyName |-> user.family_name,
                      formatted  |-> user.full_name],
     active      |-> ~user.suspended,
     external_id |-> user.id,
     roles       |-> DetermineUserRoles(user.primary_email)]

\* a slug that keeps the underscores of the name
OuToTeamSlugSpacesOnly(ou) == Replace(Lower(ou.name), " ", "-")

\* SyncEngine._ou_to_team_slug
OuToTeamSlug(ou) == Replace(Replace(Lower(ou.name), " ", "-"), "_", "-")

\* the slug of one path segment in _calculate_flattened_team_diffs
SegmentSlug(segment) == Replace(Replace(Lower(segment), " ", "-"), "_", "-")

(***************************************************************************)
(* SyncStats, UserDiff and TeamDiff.                                       *)
(***************************************************************************)
ZeroStats ==
    [users_to_create  |-> 0, users_to_update  |-> 0, users_to_suspend |-> 0,
     users_up_to_date |-> 0, users_created    |-> 0, users_updated    |-> 0,
     users_suspended  |-> 0, users_failed     |-> 0, users_skipped    |-> 0,
     teams_to_create  |-> 0, teams_to_update  |-> 0, teams_up_to_date |-> 0,
     teams_created    |-> 0, teams_updated    |-> 0, teams_failed     |-> 0]

\* self._stats.<counter> += 1
Inc(st, counter) == [st EXCEPT ![counter] = @ + 1]

\* an operation record that drops the target record it is given
UserDiffNoTarget(action, google_user, existing_scim_user, target_scim_user) ==
    [action             |-> action,
     google_user        |-> google_user,
     existing_scim_user |-> existing_scim_user,
     target_scim_user   |-> None]

UserDiff(action, google_user, existing_scim_user, target_scim_user) ==
    [action             |-> action,
     google_user        |-> google_user,
     existing_scim_user |-> existing_scim_user,
     target_scim_user   |-> target_scim_user]

TeamDiff(action, google_ou, existing_team, target_team) ==
    [action        |-> action,
     google_ou     |-> google_ou,
     existing_team |-> existing_team,
     target_team   |-> target_team]

GitHubTeam(name, slug, description, members) ==
    [id          |-> NoId,
     name        |-> name,
     slug        |-> slug,
     description |-> description,
     privacy     |-> "closed",
     members     |-> members]

(***************************************************************************)
(* The equality predicates and the primary-email key.                      *)
(***************************************************************************)
\* a comparison that forgets the role list
UsersDifferNoRoles(existing, target) ==
    \/ existing.user_name # target.user_name
    \/ existing.emails # target.emails
    \/ existing.name # target.name
    \/ existing.active # target.active

\* SyncEngine._users_differ
UsersDiffer(existing, target) ==
    \/ existing.user_name # target.user_name
    \/ existing.emails # target.emails
    \/ existing.name # target.name
    \/ existing.active # target.active
    \/ existing.roles # target.roles

\* set(members)
ToSet(members) == {members[i] : i \in 1..Len(members)}

\* a comparison of the member lists as lists
TeamsDifferOrdered(existing, target) ==
    \/ existing.name # target.name
    \/ existing.description # target.description
    \/ existing.members # target.members

\* SyncEngine._teams_differ
TeamsDiffer(existing, target) ==
    \/ existing.name # target.name
    \/ existing.description # target.description
    \/ ToSet(existing.members) # ToSet(target.members)

\* a key that is the first entry whatever is marked primary
GetPrimaryEmailFirstEntry(user) ==
    IF user.emails # <<>> THEN user.emails[1].value ELSE <<>>

\* SyncEngine._get_primary_email: the first entry marked primary, else the
\* first entry, else ''
GetPrimaryEmail(user) ==
    LET marked == {i \in 1..Len(user.emails) : user.emails[i].primary}
    IN  IF marked # {}
        THEN user.emails[CHOOSE i \in marked : \A j \in marked : i <= j].value
        ELSE IF user.emails # <<>> THEN user.emails[1].value ELSE <<>>

\* an index keyed by the first email entry, whether marked primary or not
GithubUsersByFirstEmail(husers, email) ==
    LET hits == {i \in 1..Len(husers) :
                    husers[i].emails # <<>> /\ husers[i].emails[1].value = email}
    IN  IF hits = {} THEN None
        ELSE husers[CHOOSE i \in hits : \A j \in hits : j <= i]

\* github_users_by_email.get(email): a dict comprehension keeps the last
\* user with that key
GithubUsersByEmail(husers, email) ==
    LET hits == {i \in 1..Len(husers) : GetPrimaryEmail(husers[i]) = email}
    IN  IF hits = {} THEN None
        ELSE husers[CHOOSE i \in hits : \A j \in hits : j <= i]

\* github_teams_by_slug.get(team_slug): the last team with that slug
GithubTeamsBySlug(teams, team_slug) ==
    LET hits == {i \in 1..Len(teams) : teams[i].slug = team_slug}
    IN  IF hits = {} THEN None
        ELSE teams[CHOOSE i \in hits : \A j \in hits : j <= i]

(***************************************************************************)
(* The diff calculators.  Each returns the operation list and the          *)
(* statistics it leaves in self._stats.                                    *)
(***************************************************************************)
\* the body of the loop over google_users in _calculate_user_diffs
RECURSIVE UserSourceLoop(_, _, _, _)
UserSourceLoop(gusers, husers, i, acc) ==
    IF i > Len(gusers) THEN acc
    ELSE
        LET google_user   == gusers[i]
            email         == google_user.primary_email
            existing_user == GithubUsersByEmail(husers, email)
            scim_user     == GoogleUserToScim(google_user)
        IN  IF existing_user = None
            THEN UserSourceLoop(gusers, husers, i + 1,
                    [diffs |-> Append(acc.diffs,
                                  UserDiff("create", google_user, None, scim_user)),
                     stats |-> Inc(acc.stats, "users_to_create")])
            ELSE IF UsersDiffer(existing_user, scim_user)
            THEN UserSourceLoop(gusers, husers, i + 1,
                    [diffs |-> Append(acc.diffs,
                                  UserDiff("update", google_user, existing_user,
                                           scim_user)),
                     stats |-> Inc(acc.stats, "users_to_update")])
            ELSE UserSourceLoop(gusers, husers, i + 1,
                    [diffs |-> acc.diffs,
                     stats |-> Inc(acc.stats, "users_up_to_date")])

\* a suspend loop that forgets the active test
RECURSIVE UserSuspendLoopAll(_, _, _, _)
UserSuspendLoopAll(gusers, husers, i, acc) ==
    IF i > Len(husers) THEN acc
    ELSE
        LET github_user   == husers[i]
            email         == GetPrimaryEmail(github_user)
            google_emails == {gusers[k].primary_email : k \in 1..Len(gusers)}
        IN  IF email \notin google_emails
            THEN UserSuspendLoopAll(gusers, husers, i + 1,
                    [diffs |-> Append(acc.diffs,
                                  UserDiff("suspend", None, github_user, None)),
                     stats |-> Inc(acc.stats, "users_to_suspend")])
            ELSE UserSuspendLoopAll(gusers, husers, i + 1, acc)

\* a suspend loop that forgets the email test
RECURSIVE UserSuspendLoopActive(_, _, _, _)
UserSuspendLoopActive(gusers, husers, i, acc) ==
    IF i > Len(husers) THEN acc
    ELSE
        LET github_user == husers[i]
        IN  IF github_user.active
            THEN UserSuspendLoopActive(gusers, husers, i + 1,
                    [diffs |-> Append(acc.diffs,
                                  UserDiff("suspend", None, github_user, None)),
                     stats |-> Inc(acc.stats, "users_to_suspend")])
            ELSE UserSuspendLoopActive(gusers, husers, i + 1, acc)

\* the body of the loop over github_users in _calculate_user_diffs
RECURSIVE UserSuspendLoop(_, _, _, _)
UserSuspendLoop(gusers, husers, i, acc) ==
    IF i > Len(husers) THEN acc
    ELSE
        LET github_user   == husers[i]
            email         == GetPrimaryEmail(github_user)
            google_emails == {gusers[k].primary_email : k \in 1..Len(gusers)}
        IN  IF email \notin google_emails /\ github_user.active
            THEN UserSuspendLoop(gusers, husers, i + 1,
                    [diffs |-> Append(acc.diffs,
                                  UserDiff("suspend", None, github_user, None)),
                     stats |-> Inc(acc.stats, "users_to_suspend")])
            ELSE UserSuspendLoop(gusers, husers, i + 1, acc)

\* a calculator that does not count the suspends it emits
CalculateUserDiffsUncountedSuspends(gusers, husers, st) ==
    LET a == UserSourceLoop(gusers, husers, 1, [diffs |-> <<>>, stats |-> st])
        b == UserSuspendLoop(gusers, husers, 1, a)
    IN  [diffs |-> b.diffs, stats |-> a.stats]

\* a calculator that runs the loop over github_users first
CalculateUserDiffsSuspendsFirst(gusers, husers, st) ==
    UserSourceLoop(gusers, husers, 1,
        UserSuspendLoop(gusers, husers, 1, [diffs |-> <<>>, stats |-> st]))

\* a calculator that resumes the loop over google_users where the counter
\* of an earlier invocation stands
CalculateUserDiffsResumes(gusers, husers, st) ==
    UserSuspendLoop(gusers, husers, 1,
        UserSourceLoop(gusers, husers, 1 + st.users_to_create,
                       [diffs |-> <<>>, stats |-> st]))

\* SyncEngine._calculate_user_diffs
CalculateUserDiffs(gusers, husers, st) ==
    UserSuspendLoop(gusers, husers, 1,
        UserSourceLoop(gusers, husers, 1, [diffs |-> <<>>, stats |-> st]))

\* a lookup that maps every email, fetched or not
UserEmailToUsernameAny(gusers, email) == EmailToUsername(email)

\* user_email_to_username.get(email), None when no fetched user has it
UserEmailToUsername(gusers, email) ==
    IF \E k \in 1..Len(gusers) : gusers[k].primary_email = email
    THEN EmailToUsername(email)
    ELSE NoneStr

\* the loop over google_ou.user_emails in _calculate_team_diffs
RECURSIVE GithubMembers(_, _, _)
GithubMembers(gusers, user_emails, i) ==
    IF i > Len(user_emails) THEN <<>>
    ELSE
        LET username == UserEmailToUsername(gusers, user_emails[i])
        IN  IF username # NoneStr /\ username # <<>>
            THEN <<username>> \o GithubMembers(gusers, user_emails, i + 1)
            ELSE GithubMembers(gusers, user_emails, i + 1)

\* the body of the loop over google_ous in _calculate_team_diffs
RECURSIVE TeamOuLoop(_, _, _, _, _)
TeamOuLoop(ous, teams, gusers, i, acc) ==
    IF i > Len(ous) THEN acc
    ELSE
        LET google_ou     == ous[i]
            team_slug     == OuToTeamSlug(google_ou)
            existing_team == GithubTeamsBySlug(teams, team_slug)
            target_team   == GitHubTeam(team_slug, team_slug, google_ou.description,
                                        GithubMembers(gusers, google_ou.user_emails, 1))
        IN  IF existing_team = None
            THEN IF config.create_teams
                 THEN TeamOuLoop(ous, teams, gusers, i + 1,
                        [diffs |-> Append(acc.diffs,
                                      TeamDiff("create", google_ou, None, target_team)),
                         stats |-> Inc(acc.stats, "teams_to_create")])
                 ELSE TeamOuLoop(ous, teams, gusers, i + 1, acc)
            ELSE IF TeamsDiffer(existing_team, target_team)
            THEN TeamOuLoop(ous, teams, gusers, i + 1,
                    [diffs |-> Append(acc.diffs,
                                  TeamDiff("update", google_ou, existing_team,
                                           target_team)),
                     stats |-> Inc(acc.stats, "teams_to_update")])
            ELSE TeamOuLoop(ous, teams, gusers, i + 1,
                    [diffs |-> acc.diffs,
                     stats |-> Inc(acc.stats, "teams_up_to_date")])

\* a team diff that also emits a suspend for every target team that has no
\* org-unit
CalculateTeamDiffsSuspendsOrphans(ous, teams, gusers, st) ==
    LET r == TeamOuLoop(ous, teams, gusers, 1, [diffs |-> <<>>, stats |-> st])
        orphans == SelectSeq(teams, LAMBDA t :
                      \A i \in 1..Len(ous) : OuToTeamSlug(ous[i]) # t.slug)
    IN  [diffs |-> r.diffs \o [k \in 1..Len(orphans) |->
                                  TeamDiff("suspend", None, orphans[k], None)],
         stats |-> r.stats]

\* SyncEngine._calculate_team_diffs
CalculateTeamDiffs(ous, teams, gusers, st) ==
    TeamOuLoop(ous, teams, gusers, 1, [diffs |-> <<>>, stats |-> st])

\* team_memberships[team_slug].add(username), creating the entry on first
\* use; the dict is a list of entries in insertion order
AddMembership(memberships, team_slug, username) ==
    IF \E k \in 1..Len(memberships) : memberships[k].slug = team_slug
    THEN [k \in 1..Len(memberships) |->
            IF memberships[k].slug = team_slug
            THEN [memberships[k] EXCEPT !.members = @ \cup {username}]
            ELSE memberships[k]]
    ELSE Append(memberships, [slug |-> team_slug, members |-> {username}])

\* for i in range(1, len(path_segments)): the root segment is skipped
RECURSIVE SegmentLoop(_, _, _, _)
SegmentLoop(path_segments, username, i, memberships) ==
    IF i > Len(path_segments) THEN memberships
    ELSE SegmentLoop(path_segments, username, i + 1,
            AddMembership(memberships, SegmentSlug(path_segments[i]), username))

\* a flattening that makes a team of the root segment too
RECURSIVE TeamMembershipsWithRoot(_, _, _)
TeamMembershipsWithRoot(gusers, i, memberships) ==
    IF i > Len(gusers) THEN memberships
    ELSE
        LET user          == gusers[i]
            path_segments == Split(Strip(user.org_unit_path, "/"), "/")
            username      == EmailToUsername(user.primary_email)
        IN  TeamMembershipsWithRoot(gusers, i + 1,
                SegmentLoop(path_segments, username, 1, memberships))

\* the loop over google_users in _calculate_flattened_team_diffs
RECURSIVE TeamMemberships(_, _, _)
TeamMemberships(gusers, i, memberships) ==
    IF i > Len(gusers) THEN memberships
    ELSE
        LET user          == gusers[i]
            path_segments == Split(Strip(user.org_unit_path, "/"), "/")
            username      == EmailToUsername(user.primary_email)
        IN  TeamMemberships(gusers, i + 1,
                SegmentLoop(path_segments, username, 2, memberships))

\* list(member_usernames): the set in the interpreter's iteration order
SetToList(members) == SelectSeq(hash_order, LAMBDA u : u \in members)

\* f'Team for {team_slug.replace("-", " ")} OU'
FlattenedDescription(team_slug) ==
    <<"T", "e", "a", "m", " ", "f", "o", "r", " ">>
        \o Replace(team_slug, "-", " ") \o <<" ", "O", "U">>

\* the loop over team_memberships.items() in _calculate_flattened_team_diffs
RECURSIVE FlattenedLoop(_, _, _, _)
FlattenedLoop(memberships, teams, i, acc) ==
    IF i > Len(memberships) THEN acc
    ELSE
        LET team_slug     == memberships[i].slug
            existing_team == GithubTeamsBySlug(teams, team_slug)
            target_team   == GitHubTeam(team_slug, team_slug,
                                        FlattenedDescription(team_slug),
                                        SetToList(memberships[i].members))
        IN  IF existing_team = None
            THEN IF config.create_teams
                 THEN FlattenedLoop(memberships, teams, i + 1,
                        [diffs |-> Append(acc.diffs,
                                      TeamDiff("create", None, None, target_team)),
                         stats |-> Inc(acc.stats, "teams_to_create")])
                 ELSE FlattenedLoop(memberships, teams, i + 1, acc)
            ELSE IF TeamsDiffer(existing_team, target_team)
            THEN FlattenedLoop(memberships, teams, i + 1,
                    [diffs |-> Append(acc.diffs,
                                  TeamDiff("update", None, existing_team, target_team)),
                     stats |-> Inc(acc.stats, "teams_to_update")])
            ELSE FlattenedLoop(memberships, teams, i + 1, acc)

\* SyncEngine._calculate_flattened_team_diffs
CalculateFlattenedTeamDiffs(gusers, teams, st) ==
    FlattenedLoop(TeamMemberships(gusers, 1, <<>>), teams, 1,
                  [diffs |-> <<>>, stats |-> st])

(***************************************************************************)
(* Input domains.                                                          *)
(***************************************************************************)
E1 == <<"a", ".", "b", "@", "x">>
E2 == <<"a", "-", "b", "@", "x">>
E3 == <<"c", "@", "x">>

RootPath == <<"/", "O">>

\* a GoogleUser as GoogleWorkspaceClient._parse_user builds it; the fields
\* the engine never reads (the two timestamps) are left out
GoogleUser(email, suspended, org_unit_path) ==
    [id            |-> <<"g">> \o email,
     primary_email |-> email,
     given_name    |-> "Given",
     family_name   |-> "Family",
     full_name     |-> "Given Family",
     suspended     |-> suspended,
     org_unit_path |-> org_unit_path]

\* all sequences of length at most n over S
SeqsUpTo(S, n) == UNION {[1..k -> S] : k \in 0..n}

\* source users of a fetch: primary emails are unique within one fetch
DistinctEmails(gusers) ==
    \A i, j \in 1..Len(gusers) :
        gusers[i].primary_email = gusers[j].primary_email => i = j

\* existing target users for a source email: the record a previous run
\* provisioned, and records that differ from it in one respect
ScimVariants(email, other) ==
    LET c == GoogleUserToScim(GoogleUser(email, FALSE, RootPath))
    IN  { c,
          [c EXCEPT !.active = FALSE],
          [c EXCEPT !.name = [givenName |-> "Old", familyName |-> "Family",
                              formatted |-> "Old Family"]],
          [c EXCEPT !.roles = <<>>],
          [c EXCEPT !.user_name = <<"z">>],
          [c EXCEPT !.external_id = <<"z">>],
          [c EXCEPT !.emails = <<[value |-> email, primary |-> TRUE,
                                  type |-> "work"]>>],
          [c EXCEPT !.emails = <<[value |-> email, primary |-> FALSE,
                                  type |-> "None"]>>],
          [c EXCEPT !.emails = <<[value |-> other, primary |-> FALSE,
                                  type |-> "None"],
                                 [value |-> email, primary |-> TRUE,
                                  type |-> "None"]>>],
          [c EXCEPT !.emails = <<>>] }

\* the target assigns ids: here the position in the listing
WithIds(items) == [i \in 1..Len(items) |-> [items[i] EXCEPT !.id = i]]

UserModeSources ==
    {g \in SeqsUpTo({GoogleUser(e, s, RootPath) : e \in {E1, E2}, s \in BOOLEAN},
                    MaxSource) : DistinctEmails(g)}

UserModeTargets ==
    {WithIds(h) : h \in SeqsUpTo(ScimVariants(E1, E2) \cup ScimVariants(E2, E1),
                                 MaxTarget)}

GitHubConfigs ==
    {[emu_username_suffix |-> s,
      enterprise_owners   |-> {E1},
      billing_managers    |-> {},
      guest_collaborators |-> {}] : s \in {<<>>, <<"e">>}}

\* org-unit names: the first two have the same slug
OUNames == {<<"A", " ", "b">>, <<"a", "_", "b">>, <<"C">>}

GoogleOU(name, description, user_emails) ==
    [org_unit_path |-> RootPath \o <<"/">> \o name,
     name          |-> name,
     description   |-> description,
     user_count    |-> Len(user_emails),
     user_emails   |-> user_emails]

\* E2 is the email of no fetched user in the org-unit mode
OUModeSources ==
    {g \in SeqsUpTo({GoogleUser(e, FALSE, RootPath) : e \in {E1, E3}}, MaxSource) :
        DistinctEmails(g)}

\* one org-unit path names one org-unit: listing a path twice fetches the
\* same record twice
ConsistentOUs(ous) ==
    \A i, j \in 1..Len(ous) :
        ous[i].org_unit_path = ous[j].org_unit_path => ous[i] = ous[j]

OUModeOUs ==
    {o \in SeqsUpTo({GoogleOU(n, <<"d">>, m) :
                        n \in OUNames, m \in {<<>>, <<E3, E1>>, <<E1, E2>>}},
                    MaxOUs) : ConsistentOUs(o)}

\* existing target teams: the team a previous run created for an org-unit
\* with members E3, E1, and teams that differ from it in one respect
OUModeTeamVariants ==
    LET u1 == EmailToUsername(E1)
        u3 == EmailToUsername(E3)
        t  == GitHubTeam(<<"a", "-", "b">>, <<"a", "-", "b">>, <<"d">>, <<u3, u1>>)
    IN  { t,
          [t EXCEPT !.members = <<u1, u3, u1>>],
          [t EXCEPT !.members = <<u1>>],
          [t EXCEPT !.name = <<"A", " ", "b">>],
          [t EXCEPT !.description = NoneStr],
          [t EXCEPT !.name = <<"c">>, !.slug = <<"c">>] }

\* target teams have pairwise distinct slugs: the slug is the target's key
DistinctSlugs(teams) ==
    \A i, j \in 1..Len(teams) : teams[i].slug = teams[j].slug => i = j

OUModeTeams ==
    {WithIds(t) : t \in {x \in SeqsUpTo(OUModeTeamVariants, MaxTeams) :
                            DistinctSlugs(x)}}

\* org-unit paths of the flattening mode: the root alone, one and two
\* segments below it, and a segment with the slug of another
FlatPaths ==
    { RootPath,
      RootPath \o <<"/", "A", " ", "b">>,
      RootPath \o <<"/", "A", " ", "b", "/", "C">>,
      RootPath \o <<"/", "a", "_", "b">> }

FlatModeSources ==
    {g \in SeqsUpTo({GoogleUser(e, FALSE, p) : e \in {E1, E2, E3}, p \in FlatPaths},
                    MaxSource) : DistinctEmails(g)}

FlatModeTeamVariants ==
    LET u1 == EmailToUsername(E1)
        u3 == EmailToUsername(E3)
        t  == GitHubTeam(<<"a", "-", "b">>, <<"a", "-", "b">>,
                         FlattenedDescription(<<"a", "-", "b">>), <<u3, u1>>)
    IN  { t,
          [t EXCEPT !.members = <<u1>>],
          [t EXCEPT !.members = <<u3>>],
          [t EXCEPT !.description = <<"d">>],
          [t EXCEPT !.name = <<"c">>, !.slug = <<"c">>] }

FlatModeTeams ==
    {WithIds(t) : t \in {x \in SeqsUpTo(FlatModeTeamVariants, MaxTeams) :
                            DistinctSlugs(x)}}

\* the orders in which a set of usernames may be iterated
Orders(S) ==
    {f \in [1..Cardinality(S) -> S] : \A i, j \in DOMAIN f : f[i] = f[j] => i = j}

(***************************************************************************)
(* SpecDiff: the diff calculators as pure functions of a source and a      *)
(* target snapshot, followed by a successful apply of every operation to   *)
(* the target snapshot and a second diff.                                  *)
(***************************************************************************)
\* a target double that applies a user operation successfully: create stores
\* the candidate under a fresh id, update replaces the entity that has the
\* existing id, suspend clears its active flag
RECURSIVE ApplyUserDiffsOk(_, _, _)
ApplyUserDiffsOk(husers, diffs, i) ==
    IF i > Len(diffs) THEN husers
    ELSE
        LET d == diffs[i]
            after ==
                IF d.action = "create"
                THEN Append(husers,
                            [d.target_scim_user EXCEPT !.id = Len(husers) + 1])
                ELSE IF d.action = "update"
                THEN [k \in 1..Len(husers) |->
                        IF husers[k].id = d.existing_scim_user.id
                        THEN [d.target_scim_user EXCEPT !.id = husers[k].id]
                        ELSE husers[k]]
                ELSE [k \in 1..Len(husers) |->
                        IF husers[k].id = d.existing_scim_user.id
                        THEN [husers[k] EXCEPT !.active = FALSE]
                        ELSE husers[k]]
        IN  ApplyUserDiffsOk(after, diffs, i + 1)

\* the same double for team operations
RECURSIVE ApplyTeamDiffsOk(_, _, _)
ApplyTeamDiffsOk(teams, diffs, i) ==
    IF i > Len(diffs) THEN teams
    ELSE
        LET d == diffs[i]
            after ==
                IF d.action = "create"
                THEN Append(teams, [d.target_team EXCEPT !.id = Len(teams) + 1])
                ELSE [k \in 1..Len(teams) |->
                        IF teams[k].id = d.existing_team.id
                        THEN [d.target_team EXCEPT !.id = teams[k].id]
                        ELSE teams[k]]
        IN  ApplyTeamDiffsOk(after, diffs, i + 1)

Idle ==
    /\ dry_run = FALSE
    /\ sync_ous = <<>>
    /\ sync_individual = <<>>
    /\ idx = 0
    /\ calls = <<>>
    /\ faults = <<>>
    /\ warnings = 0
    /\ result = None
    /\ runs = <<>>
    /\ directory = <<>>
    /\ nested_groups = <<>>

DiffInitUsers ==
    /\ mode = "users"
    /\ config = [create_teams |-> TRUE, flatten_ous |-> FALSE]
    /\ github_config \in GitHubConfigs
    /\ hash_order = <<>>
    /\ google_users \in UserModeSources
    /\ github_users \in UserModeTargets
    /\ google_ous = <<>>
    /\ github_teams = <<>>

DiffInit ==
    /\ pc = "start"
    /\ DiffInitUsers
    /\ user_diffs = <<>>
    /\ team_diffs = <<>>
    /\ stats = ZeroStats
    /\ Idle

\* diffs = await self._calculate_user_diffs(google_users, github_users)
DiffUsers ==
    /\ pc \in {"start", "applied"}
    /\ mode = "users"
    /\ LET r == CalculateUserDiffs(google_users, github_users, stats)
       IN  /\ user_diffs' = r.diffs
           /\ stats' = r.stats
    /\ pc' = IF pc = "start" THEN "diffed" ELSE "rediffed"
    /\ UNCHANGED <<otherVars, mode, config, github_config, hash_order, dry_run, sync_ous,
                   sync_individual, google_users, github_users, google_ous,
                   github_teams, team_diffs, idx, calls, faults, warnings, result>>

\* every operation of the computed lists is applied successfully
ApplyAllOk ==
    /\ pc = "diffed"
    /\ github_users' = ApplyUserDiffsOk(github_users, user_diffs, 1)
    /\ github_teams' = ApplyTeamDiffsOk(github_teams, team_diffs, 1)
    /\ stats' = ZeroStats
    /\ pc' = "applied"
    /\ UNCHANGED <<otherVars, mode, config, github_config, hash_order, dry_run, sync_ous,
                   sync_individual, google_users, google_ous, user_diffs,
                   team_diffs, idx, calls, faults, warnings, result>>

\* a second invocation of _calculate_user_diffs on the same engine with the
\* same arguments: self._stats is the object the first invocation counted in
DiffUsersAgain ==
    /\ pc = "diffed"
    /\ mode = "users"
    /\ LET r == CalculateUserDiffs(google_users, github_users, stats)
       IN  /\ user_diffs' = r.diffs
           /\ stats' = r.stats
    /\ pc' = "diffed_again"
    /\ UNCHANGED <<otherVars, mode, config, github_config, hash_order, dry_run, sync_ous,
                   sync_individual, google_users, github_users, google_ous,
                   github_teams, team_diffs, idx, calls, faults, warnings, result>>

DiffNext == DiffUsers \/ ApplyAllOk \/ DiffUsersAgain

SpecDiff == DiffInit /\ [][DiffNext]_vars

(***************************************************************************)
(* Claims about the user diff calculator (SpecDiff).                       *)
(***************************************************************************)
SourceEmails == {google_users[k].primary_email : k \in 1..Len(google_users)}

TargetEmails == {GetPrimaryEmail(github_users[k]) : k \in 1..Len(github_users)}

UserDiffed == pc = "diffed" /\ mode = "users"

\* the operations of the list with a given action and existing record
OpsOnExisting(action, existing) ==
    {k \in 1..Len(user_diffs) :
        /\ user_diffs[k].action = action
        /\ user_diffs[k].existing_scim_user = existing}

\* the operations of the list that carry a given source user
OpsOnSource(google_user) ==
    {k \in 1..Len(user_diffs) : user_diffs[k].google_user = google_user}

\* C1 (suspend-not-delete): after diffUsers, every existing target user whose
\* primary email is absent from the source set and whose active flag is true
\* is the subject of exactly one suspend operation, which carries that
\* record; an inactive target user, or one whose primary email is in the
\* source set, is the subject of none; and every suspend operation carries a
\* record of the target listing.
C1_SuspendNotDelete ==
    UserDiffed =>
        /\ \A i \in 1..Len(github_users) :
            LET h == github_users[i]
                n == Cardinality(OpsOnExisting("suspend", h))
            IN  IF GetPrimaryEmail(h) \notin SourceEmails /\ h.active
                THEN n = 1
                ELSE n = 0
        /\ \A k \in 1..Len(user_diffs) :
            user_diffs[k].action = "suspend" =>
                /\ \E i \in 1..Len(github_users) :
                    user_diffs[k].existing_scim_user = github_users[i]
                /\ user_diffs[k].target_scim_user = None

\* an active orphan is suspended while an inactive orphan and a matched
\* target user are left alone
C1_Witness ==
    /\ UserDiffed
    /\ Len(github_users) = 2
    /\ Len(google_users) = 1
    /\ \E i, j \in 1..2 :
        /\ GetPrimaryEmail(github_users[i]) \notin SourceEmails
        /\ github_users[i].active
        /\ OpsOnExisting("suspend", github_users[i]) # {}
        /\ GetPrimaryEmail(github_users[j]) \in SourceEmails
        /\ github_users[j].active

\* C2: after diffUsers, a source user whose primary email is the primary
\* email of no existing target user is carried by exactly one operation, a
\* create whose target record is the mapped candidate; a source user whose
\* primary email matches an existing target user is carried by no create.
C2_CreateForUnmatched ==
    UserDiffed =>
        \A i \in 1..Len(google_users) :
            LET g   == google_users[i]
                ops == OpsOnSource(g)
            IN  IF g.primary_email \notin TargetEmails
                THEN /\ Cardinality(ops) = 1
                     /\ \A k \in ops :
                        /\ user_diffs[k].action = "create"
                        /\ user_diffs[k].target_scim_user = GoogleUserToScim(g)
                        /\ user_diffs[k].existing_scim_user = None
                ELSE \A k \in ops : user_diffs[k].action # "create"

\* one source user is created while another, matched through the second
\* email entry of a target user (the one marked primary), is not
C2_Witness ==
    /\ UserDiffed
    /\ Len(google_users) = 2
    /\ \E i, j \in 1..2 :
        /\ google_users[i].primary_email \notin TargetEmails
        /\ \E k \in OpsOnSource(google_users[i]) : user_diffs[k].action = "create"
        /\ \E t \in 1..Len(github_users) :
            /\ Len(github_users[t].emails) = 2
            /\ GetPrimaryEmail(github_users[t]) = google_users[j].primary_email

\* the five compared fields, for a mapped candidate and an existing record
FieldsDiffer(candidate, existing) ==
    \/ candidate.user_name # existing.user_name
    \/ candidate.emails # existing.emails
    \/ candidate.name.givenName # existing.name.givenName
    \/ candidate.name.familyName # existing.name.familyName
    \/ candidate.name.formatted # existing.name.formatted
    \/ candidate.active # existing.active
    \/ candidate.roles # existing.roles

\* the existing record a source email is matched with: the last target user
\* of the listing that has it as primary email
Matched(email) ==
    github_users[CHOOSE t \in 1..Len(github_users) :
        /\ GetPrimaryEmail(github_users[t]) = email
        /\ \A u \in (t + 1)..Len(github_users) :
            GetPrimaryEmail(github_users[u]) # email]

\* C3: after diffUsers, for every source user matched with an existing target
\* user, an update carrying both records is emitted if and only if the mapped
\* candidate differs from the existing record in username, email list, name,
\* active flag or role list; otherwise no operation carries the user, and
\* users_up_to_date counts exactly the matched users without a difference.
C3_UpdateIffDiffer ==
    UserDiffed =>
        /\ \A i \in 1..Len(google_users) :
            LET g   == google_users[i]
                ops == OpsOnSource(g)
            IN  g.primary_email \in TargetEmails =>
                    IF FieldsDiffer(GoogleUserToScim(g), Matched(g.primary_email))
                    THEN /\ Cardinality(ops) = 1
                         /\ \A k \in ops :
                            /\ user_diffs[k].action = "update"
                            /\ user_diffs[k].existing_scim_user =
                                   Matched(g.primary_email)
                            /\ user_diffs[k].target_scim_user = GoogleUserToScim(g)
                    ELSE ops = {}
        /\ stats.users_up_to_date =
            Cardinality({i \in 1..Len(google_users) :
                /\ google_users[i].primary_email \in TargetEmails
                /\ ~FieldsDiffer(GoogleUserToScim(google_users[i]),
                                 Matched(google_users[i].primary_email))})

\* one matched user differs only in its role list and is updated, another
\* differs only in its external id and is up to date
C3_Witness ==
    /\ UserDiffed
    /\ Len(google_users) = 2
    /\ stats.users_up_to_date = 1
    /\ stats.users_to_update = 1
    /\ \E k \in 1..Len(user_diffs) :
        /\ user_diffs[k].action = "update"
        /\ user_diffs[k].existing_scim_user.roles # user_diffs[k].target_scim_user.roles
        /\ user_diffs[k].existing_scim_user.user_name = user_diffs[k].target_scim_user.user_name
        /\ user_diffs[k].existing_scim_user.emails = user_diffs[k].target_scim_user.emails
        /\ user_diffs[k].existing_scim_user.name = user_diffs[k].target_scim_user.name
        /\ user_diffs[k].existing_scim_user.active = user_diffs[k].target_scim_user.active
    /\ \E i \in 1..2, t \in 1..Len(github_users) :
        /\ OpsOnSource(google_users[i]) = {}
        /\ GetPrimaryEmail(github_users[t]) = google_users[i].primary_email
        /\ github_users[t].external_id # google_users[i].id

UserIdempotent == (pc = "rediffed" /\ mode = "users") => user_diffs = <<>>

(***************************************************************************)
(* SpecTeamDiff: the two team diff calculators as pure functions of the    *)
(* source and target snapshots, followed by a successful apply and a       *)
(* second diff.                                                            *)
(***************************************************************************)
TeamDiffInitOU ==
    /\ mode = "ou"
    /\ config \in {[create_teams |-> c, flatten_ous |-> FALSE] : c \in BOOLEAN}
    /\ github_config \in {gc \in GitHubConfigs : gc.emu_username_suffix = <<>>}
    /\ hash_order = <<>>
    /\ google_users \in OUModeSources
    /\ google_ous \in OUModeOUs
    /\ github_teams \in OUModeTeams

TeamDiffInitFlat ==
    /\ mode = "flat"
    /\ config \in {[create_teams |-> c, flatten_ous |-> TRUE] : c \in BOOLEAN}
    /\ github_config \in GitHubConfigs
    /\ hash_order \in Orders({EmailToUsername(e) : e \in {E1, E2, E3}})
    /\ google_users \in FlatModeSources
    /\ google_ous = <<>>
    /\ github_teams \in FlatModeTeams

TeamDiffInit ==
    /\ pc = "start"
    /\ (TeamDiffInitOU \/ TeamDiffInitFlat)
    /\ github_users = <<>>
    /\ user_diffs = <<>>
    /\ team_diffs = <<>>
    /\ stats = ZeroStats
    /\ Idle

\* diffs = await self._calculate_team_diffs(google_ous, github_teams, google_users)
DiffTeamsOU ==
    /\ pc \in {"start", "applied"}
    /\ mode = "ou"
    /\ LET r == CalculateTeamDiffs(google_ous, github_teams, google_users, stats)
       IN  /\ team_diffs' = r.diffs
           /\ stats' = r.stats
    /\ pc' = IF pc = "start" THEN "diffed" ELSE "rediffed"
    /\ UNCHANGED <<otherVars, mode, config, github_config, hash_order, dry_run, sync_ous,
                   sync_individual, google_users, github_users, google_ous,
                   github_teams, user_diffs, idx, calls, faults, warnings, result>>

\* diffs = await self._calculate_flattened_team_diffs(google_users, github_teams)
DiffTeamsFlat ==
    /\ pc \in {"start", "applied"}
    /\ mode = "flat"
    /\ LET r == CalculateFlattenedTeamDiffs(google_users, github_teams, stats)
       IN  /\ team_diffs' = r.diffs
           /\ stats' = r.stats
    /\ pc' = IF pc = "start" THEN "diffed" ELSE "rediffed"
    /\ UNCHANGED <<otherVars, mode, config, github_config, hash_order, dry_run, sync_ous,
                   sync_individual, google_users, github_users, google_ous,
                   github_teams, user_diffs, idx, calls, faults, warnings, result>>

TeamDiffNext == DiffTeamsOU \/ DiffTeamsFlat \/ ApplyAllOk

SpecTeamDiff == TeamDiffInit /\ [][TeamDiffNext]_vars

\* C4 (idempotence): once every operation computed by diffUsers / diffTeams
\* has been applied successfully to the target snapshot, a second diff of the
\* unchanged source against the updated target yields no operation.
C4_Idempotence == pc = "rediffed" => (user_diffs = <<>> /\ team_diffs = <<>>)

FlatIdempotent == (pc = "rediffed" /\ mode = "flat") => team_diffs = <<>>

(***************************************************************************)
(* Spec: one run of SyncEngine.synchronize.  Every collaborator call is a  *)
(* step of its own whose outcome the environment chooses: a return value   *)
(* from a bounded set, or a fault.  calls, faults and warnings are the     *)
(* observations the claims are stated over.                                *)
(***************************************************************************)
MutatingCalls ==
    {"create_user", "update_user", "suspend_user", "create_group", "update_group"}

UserMutations == {"create_user", "update_user", "suspend_user"}

TeamMutations == {"create_group", "update_group"}

FetchCalls == {"get_all_users", "get_users", "get_groups", "get_ou"}

Call(name, id, payload) == [name |-> name, id |-> id, payload |-> payload]

\* str(e) of the fault a collaborator call raises
FaultMessage(kind, name) == <<kind, name>>

ValidationMessage ==
    <<"ValueError", "No OUs or individual users specified for synchronization">>

\* a raised fault: its kind, the call that raised it, its message, the
\* number of calls made when it was raised and the statistics at that time
Fault(kind, name, msg, at, st) ==
    [kind |-> kind, call |-> name, msg |-> msg, at |-> at, stats |-> st]

\* a result whose flag is cleared when an apply operation failed
SuccessResultUnlessFailed ==
    [success    |-> stats.users_failed + stats.teams_failed = 0,
     error      |-> NoneStr,
     user_diffs |-> user_diffs,
     team_diffs |-> team_diffs,
     stats      |-> stats,
     dry_run    |-> dry_run]

\* return SyncResult(success=True, ...)
SuccessResult ==
    [success    |-> TRUE,
     error      |-> NoneStr,
     user_diffs |-> user_diffs,
     team_diffs |-> team_diffs,
     stats      |-> stats,
     dry_run    |-> dry_run]

\* a handler that reports fresh statistics instead of the accumulated ones
FailureResultFreshStats(msg, st, dry) ==
    [success    |-> FALSE,
     error      |-> msg,
     user_diffs |-> <<>>,
     team_diffs |-> <<>>,
     stats      |-> ZeroStats,
     dry_run    |-> dry]

\* except Exception as e: return SyncResult(success=False, error=str(e),
\* stats=self._stats, dry_run=dry_run); the two diff lists keep their default
FailureResult(msg, st, dry) ==
    [success    |-> FALSE,
     error      |-> msg,
     user_diffs |-> <<>>,
     team_diffs |-> <<>>,
     stats      |-> st,
     dry_run    |-> dry]

P_Ab == RootPath \o <<"/", "A", " ", "b">>
P_AbC == RootPath \o <<"/", "A", " ", "b", "/", "C">>
P_a_b == RootPath \o <<"/", "a", "_", "b">>

\* what the collaborators may return during a run
RunUsers == {GoogleUser(E1, FALSE, P_Ab), GoogleUser(E3, FALSE, P_AbC)}

RunSources == {g \in SeqsUpTo(RunUsers, MaxRunSource) : DistinctEmails(g)}

RunTargetVariants ==
    LET c == GoogleUserToScim(GoogleUser(E1, FALSE, P_Ab))
    IN  { c,
          [c EXCEPT !.name = [givenName |-> "Old", familyName |-> "Family",
                              formatted |-> "Old Family"]],
          GoogleUserToScim(GoogleUser(E2, FALSE, P_Ab)) }

RunTargets == {WithIds(h) : h \in SeqsUpTo(RunTargetVariants, MaxRunTarget)}

RunTeamVariants ==
    LET u1 == EmailToUsername(E1)
        u3 == EmailToUsername(E3)
    IN  { GitHubTeam(<<"a", "-", "b">>, <<"a", "-", "b">>, <<"d">>, <<u3, u1>>),
          GitHubTeam(<<"a", "-", "b">>, <<"a", "-", "b">>,
                     FlattenedDescription(<<"a", "-", "b">>), <<u1>>),
          GitHubTeam(<<"z">>, <<"z">>, <<"d">>, <<u1>>) }

RunTeams ==
    {WithIds(t) : t \in {x \in SeqsUpTo(RunTeamVariants, MaxTeams) :
                            DistinctSlugs(x)}}

RunPaths == <<P_Ab, P_a_b>>

RunOuPaths == {SubSeq(RunPaths, 1, k) : k \in 0..Len(RunPaths)}

\* the org-unit the source holds at a path
RunOU(ou_path) ==
    LET segments == Split(Strip(ou_path, "/"), "/")
        name     == segments[Len(segments)]
    IN  GoogleOU(name, <<"d">>, IF ou_path = P_Ab THEN <<E3, E1>> ELSE <<E1>>)

\* runs whose source holds suspended users
SuspendedRunUsers ==
    {GoogleUser(E1, TRUE, P_Ab), GoogleUser(E1, FALSE, P_Ab),
     GoogleUser(E3, TRUE, P_AbC)}

SuspendedRunTargetVariants ==
    LET c == GoogleUserToScim(GoogleUser(E1, FALSE, P_Ab))
    IN  { c,
          [c EXCEPT !.active = FALSE],
          GoogleUserToScim(GoogleUser(E2, FALSE, P_Ab)) }

\* what get_all_users may return in the runs of a mode
FetchedSources ==
    IF mode = "run_suspended"
    THEN {g \in SeqsUpTo(SuspendedRunUsers, MaxRunSource) : DistinctEmails(g)}
    ELSE RunSources

\* what get_users may return in the runs of a mode
FetchedTargets ==
    IF mode = "run_suspended"
    THEN {WithIds(h) : h \in SeqsUpTo(SuspendedRunTargetVariants, MaxRunTarget)}
    ELSE RunTargets

\* SyncEngine.__init__
Init ==
    /\ pc = "idle"
    /\ mode = "run"
    /\ config \in [create_teams : BOOLEAN, flatten_ous : BOOLEAN]
    /\ github_config \in {gc \in GitHubConfigs : gc.emu_username_suffix = <<>>}
    /\ hash_order \in
        IF config.create_teams /\ config.flatten_ous
        THEN Orders({EmailToUsername(E1), EmailToUsername(E3)})
        ELSE {<<>>}
    /\ stats = ZeroStats
    /\ google_users = <<>>
    /\ github_users = <<>>
    /\ google_ous = <<>>
    /\ github_teams = <<>>
    /\ user_diffs = <<>>
    /\ team_diffs = <<>>
    /\ Idle

inputVars == <<mode, config, github_config, hash_order>>
argVars == <<dry_run, sync_ous, sync_individual>>

\* the outer handler of synchronize: except Exception as e
Fail(kind, name, msg) ==
    /\ faults' = Append(faults, Fault(kind, name, msg, Len(calls'), stats))
    /\ result' = FailureResult(msg, stats, dry_run)
    /\ pc' = "done"

\* a synchronize that skips the scope validation
SynchronizeUnvalidated ==
    /\ pc = "idle"
    /\ \E ou_paths \in RunOuPaths, individual_users \in {<<>>, <<E3>>},
          dry \in BOOLEAN :
        /\ stats' = ZeroStats
        /\ sync_ous' = ou_paths
        /\ sync_individual' = individual_users
        /\ dry_run' = dry
        /\ pc' = "get_all_users"
        /\ UNCHANGED <<calls, faults, result>>
    /\ UNCHANGED <<inputVars, otherVars, google_users, github_users, google_ous,
                   github_teams, user_diffs, team_diffs, idx, warnings>>

\* a synchronize that does not reset the statistics
SynchronizeKeepsStats ==
    /\ pc = "idle"
    /\ \E ou_paths \in RunOuPaths, individual_users \in {<<>>, <<E3>>},
          dry \in BOOLEAN :
        /\ sync_ous' = ou_paths
        /\ sync_individual' = individual_users
        /\ dry_run' = dry
        /\ IF ou_paths = <<>> /\ individual_users = <<>>
           THEN /\ faults' = Append(faults,
                        Fault("validation", "none", ValidationMessage, 0, stats))
                /\ result' = FailureResult(ValidationMessage, stats, dry)
                /\ pc' = "done"
                /\ UNCHANGED calls
           ELSE /\ pc' = "get_all_users"
                /\ UNCHANGED <<calls, faults, result>>
    /\ UNCHANGED <<inputVars, otherVars, google_users, github_users, google_ous,
                   github_teams, user_diffs, team_diffs, idx, warnings, stats>>

\* synchronize(ou_paths, individual_users, dry_run) up to its first await:
\* the statistics are reset and the scope is validated
Synchronize ==
    /\ pc = "idle"
    /\ \E ou_paths \in RunOuPaths, individual_users \in {<<>>, <<E3>>},
          dry \in BOOLEAN :
        /\ stats' = ZeroStats
        /\ sync_ous' = ou_paths
        /\ sync_individual' = individual_users
        /\ dry_run' = dry
        /\ IF ou_paths = <<>> /\ individual_users = <<>>
           THEN /\ faults' = Append(faults,
                        Fault("validation", "none", ValidationMessage, 0, ZeroStats))
                /\ result' = FailureResult(ValidationMessage, ZeroStats, dry)
                /\ pc' = "done"
                /\ UNCHANGED calls
           ELSE /\ pc' = "get_all_users"
                /\ UNCHANGED <<calls, faults, result>>
    /\ UNCHANGED <<inputVars, otherVars, google_users, github_users, google_ous,
                   github_teams, user_diffs, team_diffs, idx, warnings>>

\* a filter that leaves suspended users out
ShouldSyncUserActiveOnly(user) == ~user.suspended

\* SyncEngine._should_sync_user
ShouldSyncUser(user) == TRUE

\* _get_google_users: get_all_users returns, every user passes the filter
GetAllUsersOk ==
    /\ pc = "get_all_users"
    /\ calls' = Append(calls, Call("get_all_users", NoId,
                    [ou_paths |-> sync_ous, individual_users |-> sync_individual]))
    /\ \E all_users \in FetchedSources :
        /\ google_users' = SelectSeq(all_users, ShouldSyncUser)
        /\ stats' = [stats EXCEPT !.users_skipped =
                        @ + Len(all_users) - Len(SelectSeq(all_users, ShouldSyncUser))]
    /\ pc' = "get_users"
    /\ UNCHANGED <<inputVars, otherVars, argVars, github_users, google_ous, github_teams,
                   user_diffs, team_diffs, idx, faults, warnings, result>>

\* get_all_users raises
GetAllUsersFault ==
    /\ pc = "get_all_users"
    /\ calls' = Append(calls, Call("get_all_users", NoId,
                    [ou_paths |-> sync_ous, individual_users |-> sync_individual]))
    /\ Fail("opaque", "get_all_users", FaultMessage("opaque", "get_all_users"))
    /\ UNCHANGED <<inputVars, otherVars, argVars, google_users, github_users, google_ous,
                   github_teams, user_diffs, team_diffs, idx, stats, warnings>>

\* _get_github_users: get_users returns
GetUsersOk ==
    /\ pc = "get_users"
    /\ calls' = Append(calls, Call("get_users", NoId, None))
    /\ github_users' \in FetchedTargets
    /\ pc' = "diff_users"
    /\ UNCHANGED <<inputVars, otherVars, argVars, google_users, google_ous, github_teams,
                   user_diffs, team_diffs, idx, stats, faults, warnings, result>>

\* get_users raises
GetUsersFault ==
    /\ pc = "get_users"
    /\ calls' = Append(calls, Call("get_users", NoId, None))
    /\ Fail("opaque", "get_users", FaultMessage("opaque", "get_users"))
    /\ UNCHANGED <<inputVars, otherVars, argVars, google_users, github_users, google_ous,
                   github_teams, user_diffs, team_diffs, idx, stats, warnings>>

\* a synchronize that applies the user changes whatever dry_run says
CalcUserDiffsAlwaysApply ==
    /\ pc = "diff_users"
    /\ LET r == CalculateUserDiffs(google_users, github_users, stats)
       IN  /\ user_diffs' = r.diffs
           /\ stats' = r.stats
    /\ idx' = 1
    /\ pc' = "apply_users"
    /\ UNCHANGED <<inputVars, otherVars, argVars, google_users, github_users, google_ous,
                   github_teams, team_diffs, calls, faults, warnings, result>>

\* user_diffs = await self._calculate_user_diffs(...); if not dry_run: ...
CalcUserDiffs ==
    /\ pc = "diff_users"
    /\ LET r == CalculateUserDiffs(google_users, github_users, stats)
       IN  /\ user_diffs' = r.diffs
           /\ stats' = r.stats
    /\ idx' = 1
    /\ pc' = IF ~dry_run THEN "apply_users" ELSE "preview_users"
    /\ UNCHANGED <<inputVars, otherVars, argVars, google_users, github_users, google_ous,
                   github_teams, team_diffs, calls, faults, warnings, result>>

\* the collaborator call an operation of _apply_user_changes makes, None
\* when no branch of the if/elif chain matches
UserCall(diff) ==
    IF diff.action = "create" /\ diff.target_scim_user # None
    THEN Call("create_user", NoId, diff.target_scim_user)
    ELSE IF /\ diff.action = "update"
            /\ diff.existing_scim_user # None
            /\ diff.target_scim_user # None
    THEN Call("update_user", diff.existing_scim_user.id, diff.target_scim_user)
    ELSE IF diff.action = "suspend" /\ diff.existing_scim_user # None
    THEN Call("suspend_user", diff.existing_scim_user.id, None)
    ELSE None

\* the counter the matching branch increments on success
UserCounter(name) ==
    CASE name = "create_user" -> "users_created"
      [] name = "update_user" -> "users_updated"
      [] name = "suspend_user" -> "users_suspended"

\* one iteration of _apply_user_changes whose collaborator call returns (or
\* that matches no branch and calls nothing)
ApplyUserChangeOk ==
    /\ pc = "apply_users"
    /\ idx <= Len(user_diffs)
    /\ LET c == UserCall(user_diffs[idx])
       IN  IF c = None
           THEN UNCHANGED <<calls, stats>>
           ELSE /\ calls' = Append(calls, c)
                /\ stats' = Inc(stats, UserCounter(c.name))
    /\ idx' = idx + 1
    /\ UNCHANGED <<pc, inputVars, otherVars, argVars, google_users, github_users, google_ous,
                   github_teams, user_diffs, team_diffs, faults, warnings, result>>

\* an applicator that lets the fault of one operation end the run
ApplyUserChangeFaultAborts ==
    /\ pc = "apply_users"
    /\ idx <= Len(user_diffs)
    /\ UserCall(user_diffs[idx]) # None
    /\ LET c == UserCall(user_diffs[idx])
       IN  /\ calls' = Append(calls, c)
           /\ Fail("opaque", c.name, FaultMessage("opaque", c.name))
    /\ UNCHANGED <<stats, idx, inputVars, otherVars, argVars, google_users, github_users,
                   google_ous, github_teams, user_diffs, team_diffs, warnings>>

\* an applicator that repeats the call of an operation after a fault
ApplyUserChangeFaultRetries ==
    /\ pc = "apply_users"
    /\ idx <= Len(user_diffs)
    /\ UserCall(user_diffs[idx]) # None
    /\ LET c == UserCall(user_diffs[idx])
       IN  /\ calls' = calls \o <<c, c>>
           /\ faults' = Append(faults,
                  Fault("opaque", c.name, FaultMessage("opaque", c.name),
                        Len(calls) + 1, stats))
           /\ stats' = Inc(stats, UserCounter(c.name))
    /\ idx' = idx + 1
    /\ UNCHANGED <<pc, inputVars, otherVars, argVars, google_users, github_users, google_ous,
                   github_teams, user_diffs, team_diffs, warnings, result>>

\* one iteration of _apply_user_changes whose collaborator call raises:
\* except Exception counts the operation as failed and the loop goes on
ApplyUserChangeFault ==
    /\ pc = "apply_users"
    /\ idx <= Len(user_diffs)
    /\ UserCall(user_diffs[idx]) # None
    /\ LET c == UserCall(user_diffs[idx])
       IN  /\ calls' = Append(calls, c)
           /\ faults' = Append(faults,
                  Fault("opaque", c.name, FaultMessage("opaque", c.name),
                        Len(calls) + 1, stats))
    /\ stats' = Inc(stats, "users_failed")
    /\ idx' = idx + 1
    /\ UNCHANGED <<pc, inputVars, otherVars, argVars, google_users, github_users, google_ous,
                   github_teams, user_diffs, team_diffs, warnings, result>>

\* a synchronize that may leave the loop of _apply_user_changes early
ApplyUsersDoneEarly ==
    /\ pc = "apply_users"
    /\ pc' = "teams"
    /\ UNCHANGED <<inputVars, otherVars, argVars, google_users, github_users, google_ous,
                   github_teams, user_diffs, team_diffs, idx, stats, calls,
                   faults, warnings, result>>

\* the loop of _apply_user_changes is over
ApplyUsersDone ==
    /\ pc = "apply_users"
    /\ idx > Len(user_diffs)
    /\ pc' = "teams"
    /\ UNCHANGED <<inputVars, otherVars, argVars, google_users, github_users, google_ous,
                   github_teams, user_diffs, team_diffs, idx, stats, calls,
                   faults, warnings, result>>

\* a preview that reads the source email of every create and update
RECURSIVE PreviewUserLoopUnguarded(_, _, _)
PreviewUserLoopUnguarded(diffs, i, log) ==
    IF i > Len(diffs) THEN [raised |-> FALSE, log |-> log]
    ELSE
        LET diff == diffs[i]
        IN  IF diff.action \in {"create", "update"}
            THEN IF diff.google_user = None
                 THEN [raised |-> TRUE, log |-> log]
                 ELSE PreviewUserLoopUnguarded(diffs, i + 1,
                        Append(log, <<diff.action, diff.google_user.primary_email>>))
            ELSE IF diff.action = "suspend" /\ diff.existing_scim_user # None
            THEN PreviewUserLoopUnguarded(diffs, i + 1,
                    Append(log, <<"suspend", diff.existing_scim_user.user_name>>))
            ELSE PreviewUserLoopUnguarded(diffs, i + 1, log)

\* the loop of _preview_user_changes: the log lines it writes, and whether
\* reading a field of an absent record raised
RECURSIVE PreviewUserLoop(_, _, _)
PreviewUserLoop(diffs, i, log) ==
    IF i > Len(diffs) THEN [raised |-> FALSE, log |-> log]
    ELSE
        LET diff == diffs[i]
        IN  IF diff.action = "create" /\ diff.google_user # None
            THEN PreviewUserLoop(diffs, i + 1,
                    Append(log, <<"create", diff.google_user.primary_email>>))
            ELSE IF diff.action = "update" /\ diff.google_user # None
            THEN PreviewUserLoop(diffs, i + 1,
                    Append(log, <<"update", diff.google_user.primary_email>>))
            ELSE IF diff.action = "suspend" /\ diff.existing_scim_user # None
            THEN PreviewUserLoop(diffs, i + 1,
                    Append(log, <<"suspend", diff.existing_scim_user.user_name>>))
            ELSE PreviewUserLoop(diffs, i + 1, log)

\* the loop of _preview_team_changes
RECURSIVE PreviewTeamLoop(_, _, _)
PreviewTeamLoop(diffs, i, log) ==
    IF i > Len(diffs) THEN [raised |-> FALSE, log |-> log]
    ELSE
        LET diff == diffs[i]
        IN  IF diff.action = "create" /\ diff.target_team # None
            THEN PreviewTeamLoop(diffs, i + 1,
                    Append(log, <<"create", diff.target_team.name>>))
            ELSE IF diff.action = "update" /\ diff.target_team # None
            THEN PreviewTeamLoop(diffs, i + 1,
                    Append(log, <<"update", diff.target_team.name>>))
            ELSE PreviewTeamLoop(diffs, i + 1, log)

\* SyncEngine._preview_user_changes: log records only
PreviewUserChanges ==
    /\ pc = "preview_users"
    /\ IF PreviewUserLoop(user_diffs, 1, <<>>).raised
       THEN /\ calls' = calls
            /\ Fail("opaque", "_preview_user_changes",
                    FaultMessage("opaque", "_preview_user_changes"))
       ELSE /\ pc' = "teams"
            /\ UNCHANGED <<calls, faults, result>>
    /\ UNCHANGED <<inputVars, otherVars, argVars, google_users, github_users, google_ous,
                   github_teams, user_diffs, team_diffs, idx, stats, warnings>>

\* a synchronize that enters the team phase whatever create_teams says
TeamPhaseAlways ==
    /\ pc = "teams"
    /\ team_diffs' = <<>>
    /\ pc' = "get_groups"
    /\ UNCHANGED <<inputVars, otherVars, argVars, google_users, github_users, google_ous,
                   github_teams, user_diffs, idx, stats, calls, faults, warnings,
                   result>>

\* team_diffs = []; if self.config.create_teams: ...
TeamPhase ==
    /\ pc = "teams"
    /\ team_diffs' = <<>>
    /\ pc' = IF config.create_teams THEN "get_groups" ELSE "return"
    /\ UNCHANGED <<inputVars, otherVars, argVars, google_users, github_users, google_ous,
                   github_teams, user_diffs, idx, stats, calls, faults, warnings,
                   result>>

\* _get_github_teams: get_groups returns
GetGroupsOk ==
    /\ pc = "get_groups"
    /\ calls' = Append(calls, Call("get_groups", NoId, None))
    /\ github_teams' \in RunTeams
    /\ google_ous' = <<>>
    /\ idx' = 1
    /\ pc' = IF config.flatten_ous THEN "diff_teams" ELSE "get_ous"
    /\ UNCHANGED <<inputVars, otherVars, argVars, google_users, github_users, user_diffs,
                   team_diffs, stats, faults, warnings, result>>

\* get_groups raises a fault other than GitHubScimNotSupportedException
GetGroupsFault ==
    /\ pc = "get_groups"
    /\ calls' = Append(calls, Call("get_groups", NoId, None))
    /\ Fail("opaque", "get_groups", FaultMessage("opaque", "get_groups"))
    /\ UNCHANGED <<inputVars, otherVars, argVars, google_users, github_users, google_ous,
                   github_teams, user_diffs, team_diffs, idx, stats, warnings>>

\* a synchronize without the inner handler: "not supported" ends the run
GetGroupsNotSupportedFails ==
    /\ pc = "get_groups"
    /\ calls' = Append(calls, Call("get_groups", NoId, None))
    /\ Fail("not_supported", "get_groups",
            FaultMessage("not_supported", "get_groups"))
    /\ UNCHANGED <<inputVars, otherVars, argVars, google_users, github_users, google_ous,
                   github_teams, user_diffs, team_diffs, idx, stats, warnings>>

\* get_groups raises GitHubScimNotSupportedException: the inner handler of
\* synchronize logs a warning and the run goes on to its return
GetGroupsNotSupported ==
    /\ pc = "get_groups"
    /\ calls' = Append(calls, Call("get_groups", NoId, None))
    /\ faults' = Append(faults,
          Fault("not_supported", "get_groups",
                FaultMessage("not_supported", "get_groups"), Len(calls) + 1, stats))
    /\ warnings' = warnings + 1
    /\ pc' = "return"
    /\ UNCHANGED <<inputVars, otherVars, argVars, google_users, github_users, google_ous,
                   github_teams, user_diffs, team_diffs, idx, stats, result>>

\* one iteration of _get_google_ous: get_ou returns the org-unit
GetOuOk ==
    /\ pc = "get_ous"
    /\ idx <= Len(sync_ous)
    /\ calls' = Append(calls, Call("get_ou", NoId, [ou_path |-> sync_ous[idx]]))
    /\ google_ous' = Append(google_ous, RunOU(sync_ous[idx]))
    /\ idx' = idx + 1
    /\ UNCHANGED <<pc, inputVars, otherVars, argVars, google_users, github_users,
                   github_teams, user_diffs, team_diffs, stats, faults, warnings,
                   result>>

\* get_ou raises ValueError (the org-unit does not exist): the path is skipped
GetOuNotFound ==
    /\ pc = "get_ous"
    /\ idx <= Len(sync_ous)
    /\ calls' = Append(calls, Call("get_ou", NoId, [ou_path |-> sync_ous[idx]]))
    /\ faults' = Append(faults,
          Fault("not_found", "get_ou", FaultMessage("not_found", "get_ou"),
                Len(calls) + 1, stats))
    /\ idx' = idx + 1
    /\ UNCHANGED <<pc, inputVars, otherVars, argVars, google_users, github_users, google_ous,
                   github_teams, user_diffs, team_diffs, stats, warnings, result>>

\* a _get_google_ous that skips the path on every fault
GetOuFaultSkips ==
    /\ pc = "get_ous"
    /\ idx <= Len(sync_ous)
    /\ calls' = Append(calls, Call("get_ou", NoId, [ou_path |-> sync_ous[idx]]))
    /\ faults' = Append(faults,
          Fault("opaque", "get_ou", FaultMessage("opaque", "get_ou"),
                Len(calls) + 1, stats))
    /\ idx' = idx + 1
    /\ UNCHANGED <<pc, inputVars, otherVars, argVars, google_users, github_users, google_ous,
                   github_teams, user_diffs, team_diffs, stats, warnings, result>>

\* get_ou raises any other fault: it reaches the outer handler
GetOuFault ==
    /\ pc = "get_ous"
    /\ idx <= Len(sync_ous)
    /\ calls' = Append(calls, Call("get_ou", NoId, [ou_path |-> sync_ous[idx]]))
    /\ Fail("opaque", "get_ou", FaultMessage("opaque", "get_ou"))
    /\ UNCHANGED <<inputVars, otherVars, argVars, google_users, github_users, google_ous,
                   github_teams, user_diffs, team_diffs, idx, stats, warnings>>

\* the loop of _get_google_ous is over
GetOusDone ==
    /\ pc = "get_ous"
    /\ idx > Len(sync_ous)
    /\ pc' = "diff_teams"
    /\ UNCHANGED <<inputVars, otherVars, argVars, google_users, github_users, google_ous,
                   github_teams, user_diffs, team_diffs, idx, stats, calls,
                   faults, warnings, result>>

\* team_diffs = await self._calculate_flattened_team_diffs(...) or
\* self._calculate_team_diffs(...); if not dry_run: ...
CalcTeamDiffs ==
    /\ pc = "diff_teams"
    /\ LET r == IF config.flatten_ous
                THEN CalculateFlattenedTeamDiffs(google_users, github_teams, stats)
                ELSE CalculateTeamDiffs(google_ous, github_teams, google_users, stats)
       IN  /\ team_diffs' = r.diffs
           /\ stats' = r.stats
    /\ idx' = 1
    /\ pc' = IF ~dry_run THEN "apply_teams" ELSE "preview_teams"
    /\ UNCHANGED <<inputVars, otherVars, argVars, google_users, github_users, google_ous,
                   github_teams, user_diffs, calls, faults, warnings, result>>

\* the collaborator call an operation of _apply_team_changes makes, None
\* when no branch of the if/elif chain matches
TeamCall(diff) ==
    IF diff.action = "create" /\ diff.target_team # None
    THEN Call("create_group", NoId, diff.target_team)
    ELSE IF /\ diff.action = "update"
            /\ diff.existing_team # None
            /\ diff.target_team # None
    THEN Call("update_group", diff.existing_team.id, diff.target_team)
    ELSE None

\* one iteration of _apply_team_changes whose collaborator call returns (or
\* that matches no branch and calls nothing)
ApplyTeamChangeOk ==
    /\ pc = "apply_teams"
    /\ idx <= Len(team_diffs)
    /\ LET c == TeamCall(team_diffs[idx])
       IN  IF c = None
           THEN UNCHANGED <<calls, stats>>
           ELSE /\ calls' = Append(calls, c)
                /\ stats' = Inc(stats, IF c.name = "create_group"
                                       THEN "teams_created" ELSE "teams_updated")
    /\ idx' = idx + 1
    /\ UNCHANGED <<pc, inputVars, otherVars, argVars, google_users, github_users, google_ous,
                   github_teams, user_diffs, team_diffs, faults, warnings, result>>

\* the call raises a fault other than GitHubScimNotSupportedException
ApplyTeamChangeFault ==
    /\ pc = "apply_teams"
    /\ idx <= Len(team_diffs)
    /\ TeamCall(team_diffs[idx]) # None
    /\ LET c == TeamCall(team_diffs[idx])
       IN  /\ calls' = Append(calls, c)
           /\ faults' = Append(faults,
                  Fault("opaque", c.name, FaultMessage("opaque", c.name),
                        Len(calls) + 1, stats))
    /\ stats' = Inc(stats, "teams_failed")
    /\ idx' = idx + 1
    /\ UNCHANGED <<pc, inputVars, otherVars, argVars, google_users, github_users, google_ous,
                   github_teams, user_diffs, team_diffs, warnings, result>>

\* the call raises GitHubScimNotSupportedException: the handler inside the
\* loop logs a warning, counts the operation as failed and the loop goes on
ApplyTeamChangeNotSupported ==
    /\ pc = "apply_teams"
    /\ idx <= Len(team_diffs)
    /\ TeamCall(team_diffs[idx]) # None
    /\ LET c == TeamCall(team_diffs[idx])
       IN  /\ calls' = Append(calls, c)
           /\ faults' = Append(faults,
                  Fault("not_supported", c.name,
                        FaultMessage("not_supported", c.name), Len(calls) + 1, stats))
    /\ warnings' = warnings + 1
    /\ stats' = Inc(stats, "teams_failed")
    /\ idx' = idx + 1
    /\ UNCHANGED <<pc, inputVars, otherVars, argVars, google_users, github_users, google_ous,
                   github_teams, user_diffs, team_diffs, result>>

\* the loop of _apply_team_changes is over
ApplyTeamsDone ==
    /\ pc = "apply_teams"
    /\ idx > Len(team_diffs)
    /\ pc' = "return"
    /\ UNCHANGED <<inputVars, otherVars, argVars, google_users, github_users, google_ous,
                   github_teams, user_diffs, team_diffs, idx, stats, calls,
                   faults, warnings, result>>

\* SyncEngine._preview_team_changes: log records only
PreviewTeamChanges ==
    /\ pc = "preview_teams"
    /\ IF PreviewTeamLoop(team_diffs, 1, <<>>).raised
       THEN /\ calls' = calls
            /\ Fail("opaque", "_preview_team_changes",
                    FaultMessage("opaque", "_preview_team_changes"))
       ELSE /\ pc' = "return"
            /\ UNCHANGED <<calls, faults, result>>
    /\ UNCHANGED <<inputVars, otherVars, argVars, google_users, github_users, google_ous,
                   github_teams, user_diffs, team_diffs, idx, stats, warnings>>

\* return SyncResult(success=True, ...)
ReturnSuccess ==
    /\ pc = "return"
    /\ result' = SuccessResult
    /\ pc' = "done"
    /\ UNCHANGED <<inputVars, otherVars, argVars, google_users, github_users, google_ous,
                   github_teams, user_diffs, team_diffs, idx, stats, calls,
                   faults, warnings>>

Next ==
    \/ Synchronize
    \/ GetAllUsersOk
    \/ GetAllUsersFault
    \/ GetUsersOk
    \/ GetUsersFault
    \/ CalcUserDiffs
    \/ ApplyUserChangeOk
    \/ ApplyUserChangeFault
    \/ ApplyUsersDone
    \/ PreviewUserChanges
    \/ TeamPhase
    \/ GetGroupsOk
    \/ GetGroupsFault
    \/ GetGroupsNotSupported
    \/ GetOuOk
    \/ GetOuNotFound
    \/ GetOuFault
    \/ GetOusDone
    \/ CalcTeamDiffs
    \/ ApplyTeamChangeOk
    \/ ApplyTeamChangeFault
    \/ ApplyTeamChangeNotSupported
    \/ ApplyTeamsDone
    \/ PreviewTeamChanges
    \/ ReturnSuccess

Spec == Init /\ [][Next]_vars

(***************************************************************************)
(* Claims on the run of synchronize (specification Spec).                  *)
(***************************************************************************)
IsUserMutation(c) == c.name \in UserMutations

IsTeamMutation(c) == c.name \in TeamMutations

\* the faults raised so far by the calls of a set
FaultsOf(names) == {i \in 1..Len(faults) : faults[i].call \in names}

\* the mutating calls the first n operations of a list ask for
UserCallsOf(n) ==
    SelectSeq([j \in 1..n |-> UserCall(user_diffs[j])], LAMBDA c : c # None)

TeamCallsOf(n) ==
    SelectSeq([j \in 1..n |-> TeamCall(team_diffs[j])], LAMBDA c : c # None)

\* the run went through the whole of _apply_user_changes
UsersApplied ==
    /\ ~dry_run
    /\ pc \in {"teams", "get_groups", "get_ous", "diff_teams", "apply_teams",
               "return"}

\* C5: partial-failure isolation.  Every fault of a user (team) mutation
\* call adds exactly one to users_failed (teams_failed); while a list is
\* applied every operation before the current one has made its call, faulty
\* or not, in list order, and after the loop every operation has; the fault
\* of a mutation call never ends the run nor becomes the result's error.
C5_PartialFailureIsolation ==
    /\ stats.users_failed = Cardinality(FaultsOf(UserMutations))
    /\ stats.teams_failed = Cardinality(FaultsOf(TeamMutations))
    /\ pc = "apply_users" =>
          SelectSeq(calls, IsUserMutation) = UserCallsOf(idx - 1)
    /\ UsersApplied =>
          SelectSeq(calls, IsUserMutation) = UserCallsOf(Len(user_diffs))
    /\ pc = "apply_teams" =>
          SelectSeq(calls, IsTeamMutation) = TeamCallsOf(idx - 1)
    /\ (~dry_run /\ pc = "return" /\ team_diffs # <<>>) =>
          SelectSeq(calls, IsTeamMutation) = TeamCallsOf(Len(team_diffs))
    /\ \A i \in FaultsOf(MutatingCalls) :
          /\ i < Len(faults) \/ pc # "done" \/ result.success
          /\ result # None /\ ~result.success => result.error # faults[i].msg

\* three user operations, the second call raised, the third was attempted
\* and the run returned 2 succeeded, 1 failed
C5_Witness ==
    /\ pc = "done"
    /\ result.success
    /\ Len(user_diffs) = 3
    /\ \E i \in 1..Len(faults) :
          /\ faults[i].call \in UserMutations
          /\ faults[i].at = 4
    /\ Len(SelectSeq(calls, IsUserMutation)) = 3
    /\ stats.users_failed = 1
    /\ stats.users_created + stats.users_updated + stats.users_suspended = 2

\* C6: dry-run purity.  In a run with dry_run = true no create_user,
\* update_user, suspend_user, create_group or update_group call is ever
\* made, whatever the operation lists are and however the run ends.
C6_DryRunPurity ==
    dry_run => \A i \in 1..Len(calls) : calls[i].name \notin MutatingCalls

\* a dry run that computed user and team operations and returned
C6_Witness ==
    /\ dry_run
    /\ pc = "done"
    /\ result.success
    /\ result.user_diffs # <<>>
    /\ result.team_diffs # <<>>
    /\ calls # <<>>

\* the statement of C7 as written: every fault raised anywhere in the
\* sequence, those of the apply step and of the team phase included, ends in
\* a result with success = false that carries the fault's message and the
\* statistics accumulated up to the fault
C7_EveryFaultFailsTheRun ==
    pc = "done" =>
        \A i \in 1..Len(faults) :
            /\ ~result.success
            /\ result.error = faults[i].msg
            /\ result.stats = faults[i].stats

\* the faults no handler inside the sequence takes: the validation fault and
\* the opaque fault of a fetch (the fault of a mutation call is counted by
\* the applicator, a missing org-unit is skipped, "not supported" is logged)
Unhandled(f) ==
    \/ f.kind = "validation"
    \/ f.kind = "opaque" /\ f.call \in FetchCalls

\* C7 (amended): a fault that no handler inside the sequence takes ends the
\* run at once in a returned result with success = false, error equal to the
\* fault's message, stats equal to the statistics accumulated in the run up
\* to the fault and the dry_run flag of the run; a run returns success =
\* false in that case only, and a result exists exactly when the run is over.
C7_UnhandledFaultFailsTheRun ==
    /\ (result # None) <=> (pc = "done")
    /\ \A i \in 1..Len(faults) :
          Unhandled(faults[i]) =>
              /\ i = Len(faults)
              /\ pc = "done"
              /\ result = [success    |-> FALSE,
                           error      |-> faults[i].msg,
                           user_diffs |-> <<>>,
                           team_diffs |-> <<>>,
                           stats      |-> faults[i].stats,
                           dry_run    |-> dry_run]
              /\ stats = faults[i].stats
    /\ (pc = "done" /\ ~result.success) =>
          /\ faults # <<>>
          /\ Unhandled(faults[Len(faults)])
    /\ (pc = "done" /\ result.success) => result.stats = stats

\* get_groups raised after the user operations were applied, one of them
\* with a fault: the failure result carries the statistics of the user phase
C7_Witness ==
    /\ pc = "done"
    /\ ~result.success
    /\ Len(faults) = 2
    /\ faults[1].call \in UserMutations
    /\ faults[2].call = "get_groups"
    /\ result.error = FaultMessage("opaque", "get_groups")
    /\ result.stats.users_failed = 1
    /\ result.stats.users_created >= 1

\* C8: scope validation.  A synchronize called with an empty org-unit list
\* and an empty individual-user list returns at once a failure result with
\* the validation message, and no collaborator call is made in the run.
C8_ScopeValidation ==
    (pc # "idle" /\ sync_ous = <<>> /\ sync_individual = <<>>) =>
        /\ pc = "done"
        /\ result # None
        /\ ~result.success
        /\ result.error = ValidationMessage
        /\ calls = <<>>

\* a run with an empty scope has returned
C8_Witness ==
    /\ pc = "done"
    /\ sync_ous = <<>>
    /\ sync_individual = <<>>
    /\ result # None
    /\ ~result.success
    /\ faults # <<>>
    /\ faults[1].kind = "validation"

\* C9: an opaque fault of a fetch (get_all_users, get_users, get_groups,
\* get_ou other than not-found) ends the run: the faulting call is the last
\* collaborator call of the run and the result has success = false and the
\* fault's message as its error.
C9_FetchFaultAborts ==
    \A i \in 1..Len(faults) :
        (faults[i].kind = "opaque" /\ faults[i].call \in FetchCalls) =>
            /\ Len(calls) = faults[i].at
            /\ calls[Len(calls)].name = faults[i].call
            /\ pc = "done"
            /\ result # None
            /\ ~result.success
            /\ result.error = faults[i].msg

\* the fetch of the second org-unit raised after user operations were
\* applied and the first org-unit was fetched
C9_Witness ==
    /\ pc = "done"
    /\ faults # <<>>
    /\ faults[Len(faults)].kind = "opaque"
    /\ faults[Len(faults)].call = "get_ou"
    /\ \E i \in 1..Len(calls) : calls[i].name \in UserMutations
    /\ Len(google_ous) = 1
    /\ ~result.success

\* C10: once a create_group or update_group call has raised "feature not
\* supported" during apply, the operation is counted as failed, no later
\* create_group or update_group call is made in the run, and the condition
\* is logged once.
C10_NotSupportedDisablesTeamOps ==
    \A i \in 1..Len(faults) :
        (faults[i].kind = "not_supported" /\ faults[i].call \in TeamMutations) =>
            /\ stats.teams_failed >= 1
            /\ \A j \in 1..Len(calls) :
                  j > faults[i].at => calls[j].name \notin TeamMutations
            /\ warnings = 1

UserCounters ==
    {"users_to_create", "users_to_update", "users_to_suspend",
     "users_up_to_date", "users_created", "users_updated", "users_suspended",
     "users_failed", "users_skipped"}

\* the user counters of a statistics record
UserStats(st) == [k \in UserCounters |-> st[k]]

\* the user operation list of the run's snapshots
FullUserDiffs == CalculateUserDiffs(google_users, github_users, ZeroStats).diffs

\* the statement of C11 as written: whenever the target signals "not
\* supported" in the team phase, be it from the fetch of the teams or from a
\* team operation, the run returns success = true with the full user
\* operation list, the user statistics accumulated and an empty team list
C11_UnsupportedGivesEmptyTeamList ==
    pc = "done" =>
        \A i \in 1..Len(faults) :
            faults[i].kind = "not_supported" =>
                /\ result.success
                /\ result.user_diffs = FullUserDiffs
                /\ UserStats(result.stats) = UserStats(faults[i].stats)
                /\ result.team_diffs = <<>>

\* C11 (amended): when get_groups signals "not supported" the run makes no
\* further collaborator call and returns success = true with the full user
\* operation list, the statistics accumulated by the user phase and an
\* empty team list; when a create_group or update_group call signals it
\* during apply the run also returns success = true with the full user
\* operation list and the user statistics, and the team list is the list
\* that was computed, which is not empty.
C11_GracefulDegradation ==
    \A i \in 1..Len(faults) :
        faults[i].kind = "not_supported" =>
            /\ pc # "done" =>
                  (pc = "return" \/ (pc = "apply_teams" /\ faults[i].call # "get_groups"))
            /\ faults[i].call = "get_groups" =>
                  /\ Len(calls) = faults[i].at
                  /\ stats = faults[i].stats
                  /\ team_diffs = <<>>
            /\ pc = "done" =>
                  /\ result.success
                  /\ result.user_diffs = FullUserDiffs
                  /\ UserStats(result.stats) = UserStats(faults[i].stats)
                  /\ result.dry_run = dry_run
                  /\ faults[i].call = "get_groups" =>
                        /\ result.team_diffs = <<>>
                        /\ result.stats = faults[i].stats
                  /\ faults[i].call \in TeamMutations =>
                        /\ result.team_diffs = team_diffs
                        /\ team_diffs # <<>>

\* get_groups signalled "not supported" after user operations were applied,
\* one of them with a fault, and the run returned
C11_Witness ==
    /\ pc = "done"
    /\ result.success
    /\ \E i \in 1..Len(faults) :
          /\ faults[i].kind = "not_supported"
          /\ faults[i].call = "get_groups"
    /\ Len(result.user_diffs) >= 2
    /\ result.stats.users_created >= 1
    /\ result.stats.users_failed >= 1
    /\ result.team_diffs = <<>>
    /\ warnings = 1

\* the number of user operations the applicator has gone through
UsersProcessed ==
    IF dry_run \/ pc \in {"idle", "get_all_users", "get_users", "diff_users"}
    THEN 0
    ELSE IF pc = "apply_users" THEN idx - 1 ELSE Len(user_diffs)

\* the position in the call log of the k-th mutating user call
UserCallAt(k) ==
    CHOOSE p \in 1..Len(calls) :
        /\ IsUserMutation(calls[p])
        /\ Cardinality({q \in 1..p : IsUserMutation(calls[q])}) = k

\* the call the claim prescribes for an operation
ExpectedUserCall(diff) ==
    CASE diff.action = "create" ->
            Call("create_user", NoId, diff.target_scim_user)
      [] diff.action = "update" ->
            Call("update_user", diff.existing_scim_user.id, diff.target_scim_user)
      [] diff.action = "suspend" ->
            Call("suspend_user", diff.existing_scim_user.id, None)

\* the call of the k-th operation raised a fault
UserOpFailed(k) == \E i \in 1..Len(faults) : faults[i].at = UserCallAt(k)

\* the processed operations of an action whose call returned
UserOpsApplied(action) ==
    {k \in 1..UsersProcessed :
        user_diffs[k].action = action /\ ~UserOpFailed(k)}

\* C12: per-operation state machine with no retry.  The applicator makes
\* exactly one collaborator call per processed operation, the call the
\* operation's action prescribes, in list order; each processed operation is
\* counted once, in the counter of its action when the call returned and in
\* users_failed when it raised, so created + updated + suspended + failed
\* is the number of processed operations (the whole list after apply).
C12_OneCallOneOutcome ==
    /\ Len(SelectSeq(calls, IsUserMutation)) = UsersProcessed
    /\ \A k \in 1..UsersProcessed :
          calls[UserCallAt(k)] = ExpectedUserCall(user_diffs[k])
    /\ stats.users_created = Cardinality(UserOpsApplied("create"))
    /\ stats.users_updated = Cardinality(UserOpsApplied("update"))
    /\ stats.users_suspended = Cardinality(UserOpsApplied("suspend"))
    /\ stats.users_failed =
          Cardinality({k \in 1..UsersProcessed : UserOpFailed(k)})
    /\ stats.users_created + stats.users_updated + stats.users_suspended
          + stats.users_failed = UsersProcessed
    /\ (~dry_run /\ pc = "return" /\ ~(\E i \in 1..Len(faults) :
                                          faults[i].call = "get_groups")) =>
          stats.teams_created + stats.teams_updated + stats.teams_failed
              = Len(team_diffs)

\* a list of two creates and a suspend was applied, one call raised
C12_Witness ==
    /\ pc = "done"
    /\ ~dry_run
    /\ UsersProcessed = 3
    /\ UserOpsApplied("create") # {}
    /\ \E k \in 1..3 : user_diffs[k].action = "suspend"
    /\ \E k \in 1..3 : UserOpFailed(k)
    /\ stats.users_failed = 1

(***************************************************************************)
(* SpecPreview: a dry run and then a real run of synchronize over the same *)
(* source and target snapshots, every collaborator call returning.  The    *)
(* real run may happen in the process of the dry run or in a new process,  *)
(* whose sets of strings iterate in another order.                         *)
(***************************************************************************)
CountActions(diffs, action) ==
    Cardinality({k \in 1..Len(diffs) : diffs[k].action = action})

\* _apply_user_changes when every call returns
ApplyUserChangesOk(diffs, st) ==
    [st EXCEPT !.users_created = @ + CountActions(diffs, "create"),
               !.users_updated = @ + CountActions(diffs, "update"),
               !.users_suspended = @ + CountActions(diffs, "suspend")]

\* _apply_team_changes when every call returns
ApplyTeamChangesOk(diffs, st) ==
    [st EXCEPT !.teams_created = @ + CountActions(diffs, "create"),
               !.teams_updated = @ + CountActions(diffs, "update")]

\* a synchronize that shows no operation in a dry run
SynchronizeOkPreviewEmpty(dry) ==
    LET u  == CalculateUserDiffs(google_users, github_users, ZeroStats)
        su == IF ~dry THEN ApplyUserChangesOk(u.diffs, u.stats) ELSE u.stats
    IN  [success    |-> TRUE,
         error      |-> NoneStr,
         user_diffs |-> IF dry THEN <<>> ELSE u.diffs,
         team_diffs |-> <<>>,
         stats      |-> su,
         dry_run    |-> dry]

\* synchronize(ou_paths, individual_users, dry_run) from the reset of the
\* statistics to the return of the result, the fetches having returned
\* google_users, github_users, github_teams and google_ous
SynchronizeOk(dry) ==
    LET u  == CalculateUserDiffs(google_users, github_users, ZeroStats)
        su == IF ~dry THEN ApplyUserChangesOk(u.diffs, u.stats) ELSE u.stats
        t  == IF ~config.create_teams
              THEN [diffs |-> <<>>, stats |-> su]
              ELSE IF config.flatten_ous
              THEN CalculateFlattenedTeamDiffs(google_users, github_teams, su)
              ELSE CalculateTeamDiffs(google_ous, github_teams, google_users, su)
        st == IF ~dry THEN ApplyTeamChangesOk(t.diffs, t.stats) ELSE t.stats
    IN  [success    |-> TRUE,
         error      |-> NoneStr,
         user_diffs |-> u.diffs,
         team_diffs |-> t.diffs,
         stats      |-> st,
         dry_run    |-> dry]

PreviewInit ==
    /\ pc = "start"
    /\ \/ DiffInitUsers
       \/ (TeamDiffInitOU \/ TeamDiffInitFlat) /\ github_users = <<>>
    /\ user_diffs = <<>>
    /\ team_diffs = <<>>
    /\ stats = ZeroStats
    /\ Idle

\* synchronize(..., dry_run=True)
PreviewRun ==
    /\ pc = "start"
    /\ LET r == SynchronizeOk(TRUE)
       IN  /\ result' = r
           /\ user_diffs' = r.user_diffs
           /\ team_diffs' = r.team_diffs
           /\ stats' = r.stats
    /\ dry_run' = TRUE
    /\ pc' = "previewed"
    /\ UNCHANGED <<inputVars, otherVars, sync_ous, sync_individual, google_users,
                   github_users, google_ous, github_teams, idx, calls, faults,
                   warnings>>

\* the program is started again: a new engine, and sets of strings iterate
\* in an order of the new process
NewProcess ==
    /\ pc = "previewed"
    /\ hash_order' \in Orders(ToSet(hash_order))
    /\ stats' = ZeroStats
    /\ pc' = "restarted"
    /\ UNCHANGED <<otherVars, mode, config, github_config, argVars, google_users,
                   github_users, google_ous, github_teams, user_diffs, team_diffs,
                   idx, calls, faults, warnings, result>>

\* synchronize(..., dry_run=False) over the same snapshots
RealRun ==
    /\ pc \in {"previewed", "restarted"}
    /\ runs' = Append(runs, result)
    /\ LET r == SynchronizeOk(FALSE)
       IN  /\ result' = r
           /\ user_diffs' = r.user_diffs
           /\ team_diffs' = r.team_diffs
           /\ stats' = r.stats
    /\ dry_run' = FALSE
    /\ pc' = IF pc = "previewed" THEN "ran" ELSE "ran_new"
    /\ UNCHANGED <<inputVars, directory, nested_groups, sync_ous, sync_individual,
                   google_users, github_users, google_ous, github_teams, idx,
                   calls, faults, warnings>>

PreviewNext == PreviewRun \/ NewProcess \/ RealRun

SpecPreview == PreviewInit /\ [][PreviewNext]_vars

SameTeamOp(a, b) ==
    /\ [a EXCEPT !.target_team = None] = [b EXCEPT !.target_team = None]
    /\ [a.target_team EXCEPT !.members = <<>>] =
          [b.target_team EXCEPT !.members = <<>>]
    /\ Len(a.target_team.members) = Len(b.target_team.members)
    /\ ToSet(a.target_team.members) = ToSet(b.target_team.members)

PathSlugs(org_unit_path) ==
    LET segments == Split(Strip(org_unit_path, "/"), "/")
    IN  {SegmentSlug(segments[i]) : i \in 2..Len(segments)}

\* the slugs of the teams the source of the run asks for
SourceSlugs ==
    IF config.flatten_ous
    THEN UNION {PathSlugs(google_users[i].org_unit_path) :
                    i \in 1..Len(google_users)}
    ELSE {OuToTeamSlug(google_ous[i]) : i \in 1..Len(google_ous)}

\* the team diff of the run has been computed
TeamsDiffed == pc \in {"apply_teams", "preview_teams", "return", "done"}

\* the fetched target teams that have no counterpart in the source
Orphans ==
    {k \in 1..Len(github_teams) : github_teams[k].slug \notin SourceSlugs}

\* C14: teams are never suspended or deleted.  Every team operation has
\* action create or update, the only team calls are get_groups,
\* create_group and update_group, and a target team whose slug no source
\* org-unit or path segment has is the subject of no operation and of no
\* create_group or update_group call.
C14_TeamsNeverSuspended ==
    /\ \A k \in 1..Len(team_diffs) : team_diffs[k].action \in {"create", "update"}
    /\ \A i \in 1..Len(calls) : calls[i].name \in FetchCalls \cup MutatingCalls
    /\ TeamsDiffed =>
          \A o \in Orphans :
              /\ \A k \in 1..Len(team_diffs) :
                    /\ team_diffs[k].existing_team # github_teams[o]
                    /\ team_diffs[k].target_team.slug # github_teams[o].slug
              /\ \A i \in 1..Len(calls) :
                    calls[i].name \in TeamMutations =>
                        /\ calls[i].id # github_teams[o].id
                        /\ calls[i].payload.slug # github_teams[o].slug

\* the target holds team "z", which the source does not ask for, and the
\* run has applied the team operations the source does ask for
C14_Witness ==
    /\ pc = "done"
    /\ result.success
    /\ ~dry_run
    /\ Orphans # {}
    /\ team_diffs # <<>>
    /\ \E i \in 1..Len(calls) : calls[i].name \in TeamMutations

(***************************************************************************)
(* SpecNested: GoogleWorkspaceClient.get_nested_groups                     *)
(* (src/src/g2g_scim_sync/google_client.py) over a directory of groups.    *)
(***************************************************************************)
\* depth of nested calls at which the interpreter raises RecursionError
MaxDepth == 4

\* the most members a group of the directory lists
MaxMembers == 2

GroupKeys == {"A", "B", "C"}

\* members().list entries: groups of the directory, a group that does not
\* exist and a user
MemberEntries ==
    {[email |-> g, type |-> "GROUP"] : g \in GroupKeys \cup {"D"}}
        \cup {[email |-> "u", type |-> "USER"]}

Directories == [GroupKeys -> SeqsUpTo(MemberEntries, MaxMembers)]

\* get_group(group_email): the GoogleGroup of an existing group
GetGroup(dir, group_email) ==
    [id            |-> group_email,
     name          |-> group_email,
     email         |-> group_email,
     member_emails |-> [k \in 1..Len(dir[group_email]) |-> dir[group_email][k].email]]

RecursionError == <<"RecursionError">>

\* the loop over the members of a group in get_nested_groups: a GROUP
\* member is fetched, appended and expanded by a nested call; a member
\* group that does not exist raises ValueError and is skipped; any other
\* fault leaves the call
RECURSIVE NestedLoop(_, _, _, _, _)
NestedLoop(dir, members, i, depth, acc) ==
    IF i > Len(members) THEN [groups |-> acc, error |-> NoneStr]
    ELSE
        LET member == members[i]
        IN  IF member.type # "GROUP" \/ member.email \notin DOMAIN dir
            THEN NestedLoop(dir, members, i + 1, depth, acc)
            ELSE IF depth >= MaxDepth
            THEN [groups |-> <<>>, error |-> RecursionError]
            ELSE
                LET sub_nested == NestedLoop(dir, dir[member.email], 1,
                                             depth + 1, <<>>)
                IN  IF sub_nested.error # NoneStr
                    THEN sub_nested
                    ELSE NestedLoop(dir, members, i + 1, depth,
                            Append(acc, GetGroup(dir, member.email))
                                \o sub_nested.groups)

\* GoogleWorkspaceClient.get_nested_groups
GetNestedGroups(dir, group_email) ==
    NestedLoop(dir, dir[group_email], 1, 1, <<>>)

NestedInit ==
    /\ pc = "start"
    /\ mode = "nested"
    /\ config = [create_teams |-> FALSE, flatten_ous |-> FALSE]
    /\ github_config \in {gc \in GitHubConfigs : gc.emu_username_suffix = <<>>}
    /\ hash_order = <<>>
    /\ directory \in Directories
    /\ nested_groups = None
    /\ google_users = <<>>
    /\ github_users = <<>>
    /\ google_ous = <<>>
    /\ github_teams = <<>>
    /\ user_diffs = <<>>
    /\ team_diffs = <<>>
    /\ stats = ZeroStats
    /\ dry_run = FALSE
    /\ sync_ous = <<>>
    /\ sync_individual = <<>>
    /\ idx = 0
    /\ calls = <<>>
    /\ faults = <<>>
    /\ warnings = 0
    /\ result = None
    /\ runs = <<>>

\* nested_groups = await client.get_nested_groups(group_email)
ResolveNestedGroups ==
    /\ pc = "start"
    /\ \E group_email \in DOMAIN directory :
          /\ sync_ous' = <<group_email>>
          /\ nested_groups' = GetNestedGroups(directory, group_email)
    /\ pc' = "resolved"
    /\ UNCHANGED <<inputVars, runs, directory, dry_run, sync_individual,
                   google_users, github_users, google_ous, github_teams,
                   user_diffs, team_diffs, idx, stats, calls, faults, warnings,
                   result>>

NestedNext == ResolveNestedGroups

SpecNested == NestedInit /\ [][NestedNext]_vars

\* C15: get_nested_groups terminates on every directory, cyclic nesting
\* included, and returns each group the top-level group reaches at most
\* once.
C15_NestedTraversalTerminates ==
    pc = "resolved" =>
        /\ nested_groups.error = NoneStr
        /\ \A i, j \in 1..Len(nested_groups.groups) :
              nested_groups.groups[i].email = nested_groups.groups[j].email
                  => i = j

(***************************************************************************)
(* Claims on the flattening mode (specification SpecTeamDiff).             *)
(***************************************************************************)
\* the mapped usernames of the users whose path has a non-root segment of
\* a slug
ExpectedMembers(team_slug) ==
    {EmailToUsername(google_users[i].primary_email) :
        i \in {j \in 1..Len(google_users) :
                  team_slug \in PathSlugs(google_users[j].org_unit_path)}}

\* the candidate teams of the flattening mode, in the order of the dict
CandidateTeams == TeamMemberships(google_users, 1, <<>>)

\* C16: flattening coverage.  The candidate teams are exactly the slugs of
\* the non-root path segments of the source users, one candidate per slug;
\* the members of a candidate are exactly the mapped usernames of the users
\* whose path has a segment of that slug below the root; the root segment
\* makes no team and a user at the root is a member of no team on account
\* of its path; every operation carries the candidate of its slug, and a
\* candidate the target lacks is created when team creation is on.
C16_FlatteningCoverage ==
    (mode = "flat" /\ pc = "diffed") =>
        /\ {CandidateTeams[k].slug : k \in 1..Len(CandidateTeams)} = SourceSlugs
        /\ \A k, l \in 1..Len(CandidateTeams) :
              CandidateTeams[k].slug = CandidateTeams[l].slug => k = l
        /\ \A k \in 1..Len(CandidateTeams) :
              CandidateTeams[k].members = ExpectedMembers(CandidateTeams[k].slug)
        /\ \A i \in 1..Len(google_users) :
              Len(Split(Strip(google_users[i].org_unit_path, "/"), "/")) = 1 =>
                  PathSlugs(google_users[i].org_unit_path) = {}
        /\ \A k \in 1..Len(team_diffs) :
              LET t == team_diffs[k].target_team
              IN  /\ t.slug \in SourceSlugs
                  /\ t.name = t.slug
                  /\ ToSet(t.members) = ExpectedMembers(t.slug)
                  /\ Len(t.members) = Cardinality(ExpectedMembers(t.slug))
        /\ \A team_slug \in SourceSlugs :
              (config.create_teams /\ GithubTeamsBySlug(github_teams, team_slug) = None)
                  => \E k \in 1..Len(team_diffs) :
                        /\ team_diffs[k].action = "create"
                        /\ team_diffs[k].target_team.slug = team_slug

\* one user at the root and one two levels below it: teams "a-b" and "c",
\* both with the second user only
C16_Witness ==
    /\ mode = "flat"
    /\ pc = "diffed"
    /\ Len(google_users) = 2
    /\ google_users[1].org_unit_path = RootPath
    /\ Len(Split(Strip(google_users[2].org_unit_path, "/"), "/")) = 3
    /\ Len(team_diffs) = 2
    /\ \A k \in 1..2 :
          team_diffs[k].target_team.members =
              <<EmailToUsername(google_users[2].primary_email)>>

(***************************************************************************)
(* SpecRoles: the user diff of new source users under every configuration  *)
(* of the three role tables.                                               *)
(***************************************************************************)
RoleEmails == {E1, E3}

RoleConfigs ==
    {[emu_username_suffix |-> <<>>,
      enterprise_owners   |-> o,
      billing_managers    |-> b,
      guest_collaborators |-> g] :
        o \in SUBSET RoleEmails, b \in SUBSET RoleEmails, g \in SUBSET RoleEmails}

RolesInit ==
    /\ pc = "start"
    /\ mode = "users"
    /\ config = [create_teams |-> FALSE, flatten_ous |-> FALSE]
    /\ github_config \in RoleConfigs
    /\ hash_order = <<>>
    /\ google_users \in
          {<<GoogleUser(e, FALSE, RootPath)>> : e \in {E1, E2, E3}}
    /\ github_users = <<>>
    /\ google_ous = <<>>
    /\ github_teams = <<>>
    /\ user_diffs = <<>>
    /\ team_diffs = <<>>
    /\ stats = ZeroStats
    /\ Idle

RolesNext == DiffUsers

SpecRoles == RolesInit /\ [][RolesNext]_vars

\* the tables that hold an email, in the order of precedence
TablesOf(email) ==
    SelectSeq(<<"enterprise_owner", "billing_manager", "guest_collaborator">>,
              LAMBDA r :
                  \/ r = "enterprise_owner" /\ email \in github_config.enterprise_owners
                  \/ r = "billing_manager" /\ email \in github_config.billing_managers
                  \/ r = "guest_collaborator"
                        /\ email \in github_config.guest_collaborators)

\* C17: role precedence.  Under every configuration of the three tables the
\* candidate of a source user has exactly one role entry, marked primary:
\* the first of enterprise_owner, billing_manager, guest_collaborator whose
\* table holds the email, and user when no table holds it.
C17_RolePrecedence ==
    /\ \A email \in {E1, E2, E3} :
          /\ Len(DetermineUserRoles(email)) = 1
          /\ DetermineUserRoles(email)[1].primary
          /\ DetermineUserRoles(email)[1].value =
                IF TablesOf(email) = <<>> THEN "user" ELSE TablesOf(email)[1]
    /\ pc = "diffed" =>
          \A k \in 1..Len(user_diffs) :
              user_diffs[k].target_scim_user.roles =
                  <<[value   |-> IF TablesOf(user_diffs[k].google_user.primary_email) = <<>>
                                 THEN "user"
                                 ELSE TablesOf(user_diffs[k].google_user.primary_email)[1],
                     primary |-> TRUE]>>

\* a new user whose email is in the enterprise-owner and in the
\* guest-collaborator table is created as enterprise owner
C17_Witness ==
    /\ pc = "diffed"
    /\ Len(user_diffs) = 1
    /\ user_diffs[1].action = "create"
    /\ user_diffs[1].google_user.primary_email \in github_config.enterprise_owners
    /\ user_diffs[1].google_user.primary_email \in github_config.guest_collaborators
    /\ user_diffs[1].google_user.primary_email \notin github_config.billing_managers
    /\ user_diffs[1].target_scim_user.roles[1].value = "enterprise_owner"

(***************************************************************************)
(* SpecRuns: several invocations of synchronize on one engine, with team   *)
(* synchronization off.                                                    *)
(***************************************************************************)
\* the most invocations on one engine
MaxRuns == 2

RunsInit ==
    /\ Init
    /\ config = [create_teams |-> FALSE, flatten_ous |-> FALSE]

\* synchronize has returned and the caller, which keeps the result, is
\* about to invoke it again: the locals of the finished invocation are gone,
\* self._stats is still the object of the finished invocation
NextRun ==
    /\ pc = "done"
    /\ Len(runs) < MaxRuns - 1
    /\ runs' = Append(runs, result)
    /\ pc' = "idle"
    /\ dry_run' = FALSE
    /\ sync_ous' = <<>>
    /\ sync_individual' = <<>>
    /\ google_users' = <<>>
    /\ github_users' = <<>>
    /\ google_ous' = <<>>
    /\ github_teams' = <<>>
    /\ user_diffs' = <<>>
    /\ team_diffs' = <<>>
    /\ idx' = 0
    /\ calls' = <<>>
    /\ faults' = <<>>
    /\ warnings' = 0
    /\ result' = None
    /\ UNCHANGED <<inputVars, stats, directory, nested_groups>>

RunsNext ==
    \/ Synchronize
    \/ GetAllUsersOk
    \/ GetAllUsersFault
    \/ GetUsersOk
    \/ GetUsersFault
    \/ CalcUserDiffs
    \/ ApplyUserChangeOk
    \/ ApplyUserChangeFault
    \/ ApplyUsersDone
    \/ PreviewUserChanges
    \/ TeamPhase
    \/ ReturnSuccess
    \/ NextRun

SpecRuns == RunsInit /\ [][RunsNext]_vars

\* the user diff of the current invocation has been computed
UsersDiffed ==
    \/ pc \in {"apply_users", "preview_users", "teams", "return"}
    \/ pc = "done" /\ result.success

\* the statistics the current invocation alone accounts for
ThisRunStats ==
    [ZeroStats EXCEPT
        !.users_to_create  = CountActions(user_diffs, "create"),
        !.users_to_update  = CountActions(user_diffs, "update"),
        !.users_to_suspend = CountActions(user_diffs, "suspend"),
        !.users_up_to_date =
            IF UsersDiffed
            THEN Len(google_users) - CountActions(user_diffs, "create")
                    - CountActions(user_diffs, "update")
            ELSE 0,
        !.users_created    = Cardinality(UserOpsApplied("create")),
        !.users_updated    = Cardinality(UserOpsApplied("update")),
        !.users_suspended  = Cardinality(UserOpsApplied("suspend")),
        !.users_failed     =
            Cardinality({k \in 1..UsersProcessed : UserOpFailed(k)})]

\* C18: RunStats does not cross run boundaries.  Every invocation starts
\* from all-zero counters whatever the earlier invocations counted, at
\* every step its counters are those its own operations and calls account
\* for, the result it returns carries these counters, and no step of a
\* later invocation changes the result of an earlier one.
C18_StatsPerRun ==
    /\ [](/\ pc = "get_all_users" => stats = ZeroStats
          /\ pc # "idle" => stats = ThisRunStats
          /\ pc = "done" => result.stats = ThisRunStats)
    /\ [][/\ Len(runs') >= Len(runs)
          /\ \A k \in 1..Len(runs) : runs'[k] = runs[k]]_vars

\* a second invocation, a dry run, has returned after a first one that
\* created users: its result counts no applied operation and the first
\* result still does
C18_Witness ==
    /\ Len(runs) = 1
    /\ runs[1].success
    /\ runs[1].stats.users_created >= 1
    /\ runs[1].stats.users_failed >= 1
    /\ pc = "done"
    /\ result.success
    /\ result.dry_run
    /\ result.stats.users_to_create >= 1
    /\ result.stats.users_created = 0
    /\ result.stats.users_failed = 0

(***************************************************************************)
(* Ordering and determinism of the user diff (SpecDiff).                   *)
(***************************************************************************)
\* the operations of the list that are creates or updates
CreateUpdateOps ==
    {k \in 1..Len(user_diffs) : user_diffs[k].action \in {"create", "update"}}

SuspendOps == {k \in 1..Len(user_diffs) : user_diffs[k].action = "suspend"}

StrictlyIncreasing(f) ==
    \A i, j \in DOMAIN f : i < j => f[i] < f[j]

\* C19: in the list diffUsers returns, the create and update operations
\* come first, in the order in which their source users are iterated, and
\* every suspend operation comes after all of them, the suspends in the
\* order in which their target users are iterated.
C19_OperationOrdering ==
    UserDiffed =>
        LET n == Cardinality(CreateUpdateOps)
            m == Cardinality(SuspendOps)
        IN  /\ Len(user_diffs) = n + m
            /\ CreateUpdateOps = 1..n
            /\ SuspendOps = (n + 1)..(n + m)
            /\ \E f \in [1..n -> 1..Len(google_users)] :
                /\ StrictlyIncreasing(f)
                /\ \A k \in 1..n : user_diffs[k].google_user = google_users[f[k]]
            /\ \E g \in [1..m -> 1..Len(github_users)] :
                /\ StrictlyIncreasing(g)
                /\ \A k \in 1..m :
                    user_diffs[n + k].existing_scim_user = github_users[g[k]]

\* two source users each need an operation and two target users are
\* suspended after them
C19_Witness ==
    /\ UserDiffed
    /\ Len(user_diffs) = 4
    /\ CreateUpdateOps = {1, 2}
    /\ SuspendOps = {3, 4}
    /\ user_diffs[1].google_user = google_users[1]
    /\ user_diffs[2].google_user = google_users[2]
    /\ user_diffs[1].google_user # user_diffs[2].google_user
    /\ user_diffs[3].existing_scim_user = github_users[1]
    /\ user_diffs[4].existing_scim_user = github_users[2]
    /\ user_diffs[3].existing_scim_user # user_diffs[4].existing_scim_user

CallRank(name) ==
    CASE name = "get_all_users" -> 1
      [] name = "get_users" -> 2
      [] name \in UserMutations -> 3
      [] name = "get_groups" -> 4
      [] name = "get_ou" -> 5
      [] name \in TeamMutations -> 6

CallsNamed(names) == {k \in 1..Len(calls) : calls[k].name \in names}

\* the operations of the user diff that make a collaborator call
UserOpsWithCall == {k \in 1..Len(user_diffs) : UserCall(user_diffs[k]) # None}

\* C21: in every run the collaborator calls follow the order source fetch,
\* target user fetch, user operations, team fetch, org-unit fetch, team
\* operations; each of the three listings is fetched at most once; a user
\* operation is called only after both user fetches; a team call happens
\* only when team synchronization is enabled and, in a run that applies,
\* only after every operation of the user diff has been attempted; a team
\* operation is called only after the team fetch and, without flattening,
\* after every scope path has been looked up.
C21_Sequencing ==
    /\ \A j, k \in 1..Len(calls) :
        j < k => CallRank(calls[j].name) <= CallRank(calls[k].name)
    /\ \A n \in {"get_all_users", "get_users", "get_groups"} :
        Cardinality(CallsNamed({n})) <= 1
    /\ \A k \in 1..Len(calls) :
        /\ CallRank(calls[k].name) >= 2 => calls[1].name = "get_all_users"
        /\ CallRank(calls[k].name) >= 3 =>
            /\ Len(calls) >= 2
            /\ calls[2].name = "get_users"
        /\ CallRank(calls[k].name) = 3 =>
            /\ ~dry_run
            /\ k - 2 \in 1..Len(user_diffs)
            /\ calls[k] = UserCall(user_diffs[k - 2])
        /\ CallRank(calls[k].name) >= 4 =>
            /\ config.create_teams
            /\ IF dry_run
               THEN CallsNamed(UserMutations) = {}
               ELSE Cardinality(CallsNamed(UserMutations))
                        = Cardinality(UserOpsWithCall)
        /\ CallRank(calls[k].name) = 5 => ~config.flatten_ous
        /\ CallRank(calls[k].name) = 6 =>
            /\ ~dry_run
            /\ CallsNamed({"get_groups"}) # {}
            /\ ~config.flatten_ous =>
                Cardinality(CallsNamed({"get_ou"})) = Len(sync_ous)

\* a run that applied has returned after user operations, the team fetch,
\* org-unit lookups and team operations
C21_Witness ==
    /\ pc = "done"
    /\ result.success
    /\ ~dry_run
    /\ Cardinality(CallsNamed(UserMutations)) >= 2
    /\ Cardinality(CallsNamed({"get_ou"})) >= 2
    /\ CallsNamed(TeamMutations) # {}

(***************************************************************************)
(* Accounting of the user diff (SpecDiff).                                 *)
(***************************************************************************)
\* C22: after diffUsers, started from zero counters, users_to_create +
\* users_to_update + users_up_to_date is the number of source users, each
\* of the three "to" counters is the number of operations of its action,
\* and users_to_create + users_to_update + users_to_suspend is the length
\* of the returned list.
C22_DiffAccounting ==
    UserDiffed =>
        /\ stats.users_to_create + stats.users_to_update
                + stats.users_up_to_date = Len(google_users)
        /\ stats.users_to_create = CountActions(user_diffs, "create")
        /\ stats.users_to_update = CountActions(user_diffs, "update")
        /\ stats.users_to_suspend = Cardinality(SuspendOps)
        /\ stats.users_to_create + stats.users_to_update
                + stats.users_to_suspend = Len(user_diffs)

\* one new and one unchanged source user: one create, one up to date
C22_Witness ==
    /\ UserDiffed
    /\ Len(google_users) = 2
    /\ Len(github_users) = 1
    /\ Len(user_diffs) = 1
    /\ user_diffs[1].action = "create"
    /\ stats.users_to_create = 1
    /\ stats.users_up_to_date = 1
    /\ stats.users_to_update = 0
    /\ stats.users_to_suspend = 0

(***************************************************************************)
(* SpecGroups: GoogleWorkspaceClient.get_all_users_in_groups               *)
(* (src/src/g2g_scim_sync/google_client.py) over a directory of groups and *)
(* users.                                                                  *)
(***************************************************************************)
UserGroupKeys == {"A", "B"}

\* users().get(userKey=...): the keys "u1" and "a1" answer with records of
\* the same primary email, "u2" with another one; any other key answers 404
UserTable ==
    [u1 |-> GoogleUser(E1, FALSE, RootPath),
     a1 |-> GoogleUser(E1, TRUE, RootPath),
     u2 |-> GoogleUser(E2, FALSE, RootPath)]

\* members().list entries: users and groups of the directory, a user and a
\* group that do not exist
UserMemberEntries ==
    {[email |-> u, type |-> "USER"] : u \in {"u1", "a1", "u2", "m"}}
        \cup {[email |-> g, type |-> "GROUP"] : g \in UserGroupKeys \cup {"D"}}

UserDirectories == [UserGroupKeys -> SeqsUpTo(UserMemberEntries, MaxMembers)]

\* the group_emails argument
GroupEmailLists == SeqsUpTo(UserGroupKeys \cup {"D"}, 2)

ValueError == <<"ValueError">>

HttpError == <<"HttpError">>

\* the log of collaborator calls and faults an operator extends
Logged(log, name, payload) ==
    [log EXCEPT !.calls = Append(@, Call(name, NoId, payload))]

LoggedNotFound(log, name, payload) ==
    [calls  |-> Append(log.calls, Call(name, NoId, payload)),
     faults |-> Append(log.faults,
                   Fault("not_found", name, FaultMessage("not_found", name),
                         Len(log.calls) + 1, ZeroStats))]

\* the loop over the members of a group in get_users_in_group: a USER
\* member is fetched with get_user and appended; get_user raises ValueError
\* for a user that does not exist and the member is skipped
RECURSIVE UsersInGroupLoop(_, _, _, _)
UsersInGroupLoop(members, i, users, log) ==
    IF i > Len(members) THEN [users |-> users, error |-> NoneStr, log |-> log]
    ELSE
        LET member == members[i]
        IN  IF member.type # "USER"
            THEN UsersInGroupLoop(members, i + 1, users, log)
            ELSE IF member.email \notin DOMAIN UserTable
            THEN UsersInGroupLoop(members, i + 1, users,
                    LoggedNotFound(log, "get_user",
                                   [email |-> member.email, user |-> None]))
            ELSE UsersInGroupLoop(members, i + 1,
                    Append(users, UserTable[member.email]),
                    Logged(log, "get_user",
                           [email |-> member.email,
                            user  |-> UserTable[member.email]]))

\* a get_users_in_group that re-raises the 404 of a missing group as it is
GetUsersInGroupReraises(dir, group_email, log) ==
    IF group_email \notin DOMAIN dir
    THEN [users |-> <<>>, error |-> HttpError,
          log   |-> LoggedNotFound(log, "get_users_in_group",
                                   [email |-> group_email, user |-> None])]
    ELSE UsersInGroupLoop(dir[group_email], 1, <<>>, log)

\* GoogleWorkspaceClient.get_users_in_group: members().list answers 404 for
\* a group that does not exist, raised as ValueError
GetUsersInGroup(dir, group_email, log) ==
    IF group_email \notin DOMAIN dir
    THEN [users |-> <<>>, error |-> ValueError,
          log   |-> LoggedNotFound(log, "get_users_in_group",
                                   [email |-> group_email, user |-> None])]
    ELSE UsersInGroupLoop(dir[group_email], 1, <<>>, log)

\* a collector that lets a later record replace the one it holds
AddUserKeepsLast(acc, user) ==
    [acc EXCEPT
        !.all_users = Append(SelectSeq(acc.all_users,
                                LAMBDA u : u.primary_email # user.primary_email),
                             user),
        !.seen_emails = @ \cup {user.primary_email}]

\* if user.primary_email not in seen_emails: all_users.append(user);
\* seen_emails.add(user.primary_email)
AddUser(acc, user) ==
    IF user.primary_email \notin acc.seen_emails
    THEN [acc EXCEPT !.all_users = Append(@, user),
                     !.seen_emails = @ \cup {user.primary_email}]
    ELSE acc

\* for user in users: ...
RECURSIVE AddUsers(_, _, _)
AddUsers(acc, users, i) ==
    IF i > Len(users) THEN acc
    ELSE AddUsers(AddUser(acc, users[i]), users, i + 1)

\* for nested_group in nested_groups: users = await
\* self.get_users_in_group(nested_group.email); ...
RECURSIVE NestedUsersLoop(_, _, _, _)
NestedUsersLoop(dir, groups, i, acc) ==
    IF i > Len(groups) THEN acc
    ELSE
        LET r == GetUsersInGroup(dir, groups[i].email,
                                 [calls |-> acc.calls, faults |-> acc.faults])
            logged == [acc EXCEPT !.calls = r.log.calls, !.faults = r.log.faults]
        IN  IF r.error # NoneStr
            THEN [logged EXCEPT !.error = r.error]
            ELSE NestedUsersLoop(dir, groups, i + 1, AddUsers(logged, r.users, 1))

\* the loop over group_emails in get_all_users_in_groups: ValueError raised
\* while a group is processed ends the processing of that group only, any
\* other fault leaves the call
RECURSIVE GroupsLoop(_, _, _, _)
GroupsLoop(dir, group_emails, i, acc) ==
    IF i > Len(group_emails) THEN acc
    ELSE
        LET group_email == group_emails[i]
            r == GetUsersInGroup(dir, group_email,
                                 [calls |-> acc.calls, faults |-> acc.faults])
            logged == [acc EXCEPT !.calls = r.log.calls, !.faults = r.log.faults]
        IN  IF r.error = ValueError
            THEN GroupsLoop(dir, group_emails, i + 1, logged)
            ELSE IF r.error # NoneStr
            THEN [logged EXCEPT !.error = r.error]
            ELSE
                LET direct == AddUsers(logged, r.users, 1)
                    nested == GetNestedGroups(dir, group_email)
                IN  IF nested.error # NoneStr
                    THEN [direct EXCEPT !.error = nested.error]
                    ELSE
                        LET n == NestedUsersLoop(dir, nested.groups, 1, direct)
                        IN  IF n.error = ValueError
                            THEN GroupsLoop(dir, group_emails, i + 1,
                                            [n EXCEPT !.error = NoneStr])
                            ELSE IF n.error # NoneStr THEN n
                            ELSE GroupsLoop(dir, group_emails, i + 1, n)

\* GoogleWorkspaceClient.get_all_users_in_groups
GetAllUsersInGroups(dir, group_emails) ==
    GroupsLoop(dir, group_emails, 1,
               [all_users |-> <<>>, seen_emails |-> {}, calls |-> <<>>,
                faults |-> <<>>, error |-> NoneStr])

GroupsInit ==
    /\ pc = "start"
    /\ mode = "groups"
    /\ config = [create_teams |-> FALSE, flatten_ous |-> FALSE]
    /\ github_config \in {gc \in GitHubConfigs : gc.emu_username_suffix = <<>>}
    /\ hash_order = <<>>
    /\ directory \in UserDirectories
    /\ nested_groups = None
    /\ google_users = <<>>
    /\ github_users = <<>>
    /\ google_ous = <<>>
    /\ github_teams = <<>>
    /\ user_diffs = <<>>
    /\ team_diffs = <<>>
    /\ stats = ZeroStats
    /\ dry_run = FALSE
    /\ sync_ous = <<>>
    /\ sync_individual = <<>>
    /\ idx = 0
    /\ calls = <<>>
    /\ faults = <<>>
    /\ warnings = 0
    /\ result = None
    /\ runs = <<>>

\* users = await client.get_all_users_in_groups(group_emails): the call
\* returns the list or raises
CollectUsers ==
    /\ pc = "start"
    /\ mode = "groups"
    /\ \E group_emails \in GroupEmailLists :
        LET r == GetAllUsersInGroups(directory, group_emails)
        IN  /\ sync_ous' = group_emails
            /\ calls' = r.calls
            /\ faults' = r.faults
            /\ IF r.error = NoneStr
               THEN /\ google_users' = r.all_users
                    /\ pc' = "collected"
               ELSE /\ google_users' = <<>>
                    /\ pc' = "raised"
            /\ result' = [error |-> r.error]
    /\ UNCHANGED <<inputVars, runs, directory, nested_groups, dry_run,
                   sync_individual, github_users, google_ous, github_teams,
                   user_diffs, team_diffs, idx, stats, warnings>>

GroupsNext == CollectUsers

SpecGroups == GroupsInit /\ [][GroupsNext]_vars

\* the user records the traversal fetched, in the order it fetched them
Visited ==
    LET fetched == SelectSeq(calls, LAMBDA c : c.name = "get_user"
                                                /\ c.payload.user # None)
    IN  [k \in 1..Len(fetched) |-> fetched[k].payload.user]

\* the place in the traversal where a primary email is first met
FirstVisit(email) ==
    CHOOSE p \in 1..Len(Visited) :
        /\ Visited[p].primary_email = email
        /\ \A q \in 1..(p - 1) : Visited[q].primary_email # email

\* C23: the list get_all_users_in_groups returns holds each primary email
\* the traversal met exactly once, the record kept for an email is the
\* first one the traversal met with it, and the records stand in the order
\* of these first meetings.
C23_FirstOccurrenceWins ==
    (mode = "groups" /\ pc = "collected") =>
        /\ \A i, j \in 1..Len(google_users) :
            google_users[i].primary_email = google_users[j].primary_email
                => i = j
        /\ {google_users[k].primary_email : k \in 1..Len(google_users)}
                = {Visited[p].primary_email : p \in 1..Len(Visited)}
        /\ \A k \in 1..Len(google_users) :
            google_users[k] = Visited[FirstVisit(google_users[k].primary_email)]
        /\ \A i, j \in 1..Len(google_users) :
            i < j => FirstVisit(google_users[i].primary_email)
                        < FirstVisit(google_users[j].primary_email)

\* two scopes with a nested group were collected; the traversal met a
\* primary email under two different records and the first one was kept
C23_Witness ==
    /\ mode = "groups"
    /\ pc = "collected"
    /\ Len(sync_ous) = 2
    /\ sync_ous[1] \in DOMAIN directory
    /\ GetNestedGroups(directory, sync_ous[1]).groups # <<>>
    /\ Len(Visited) >= 4
    /\ Len(google_users) = 2
    /\ Visited[1] = UserTable.u2
    /\ Visited[2] = UserTable.a1
    /\ \E p \in 3..Len(Visited) : Visited[p] = UserTable.u1
    /\ google_users = <<UserTable.u2, UserTable.a1>>

(***************************************************************************)
(* SpecNotFound: the two places that read the source, a run of synchronize *)
(* and a call of get_all_users_in_groups.                                  *)
(***************************************************************************)
NotFoundInit == Init \/ GroupsInit

NotFoundNext == Next \/ GroupsNext

SpecNotFound == NotFoundInit /\ [][NotFoundNext]_vars

\* the groups of the directory the scopes reach, members that do not exist
\* left out
ReachedGroups ==
    LET top == {sync_ous[k] : k \in 1..Len(sync_ous)} \cap DOMAIN directory
        step(S) == S \cup {m \in DOMAIN directory :
                            \E g \in S : \E k \in 1..Len(directory[g]) :
                                /\ directory[g][k].type = "GROUP"
                                /\ directory[g][k].email = m}
    IN  step(step(top))

\* the primary emails of the users that exist among the members of the
\* reached groups
ReachedEmails ==
    UNION {{UserTable[directory[g][k].email].primary_email :
                k \in {j \in 1..Len(directory[g]) :
                        /\ directory[g][j].type = "USER"
                        /\ directory[g][j].email \in DOMAIN UserTable}} :
            g \in ReachedGroups}

\* the position in the call log of the k-th get_ou call
OuCallAt(k) ==
    CHOOSE p \in 1..Len(calls) :
        /\ calls[p].name = "get_ou"
        /\ Cardinality({q \in 1..p : calls[q].name = "get_ou"}) = k

OuNotFound(k) ==
    \E i \in 1..Len(faults) :
        faults[i].at = OuCallAt(k) /\ faults[i].kind = "not_found"

\* the lookups of _get_google_ous made so far
OuLookups == Cardinality(CallsNamed({"get_ou"}))

\* C24: a source entity that does not exist is skipped and never fails the
\* caller.  get_all_users_in_groups never raises a not-found fault, and
\* when it returns, the users it returns are those that exist among the
\* members of every existing group the scopes reach: missing member users,
\* missing nested groups and missing top-level groups leave the rest
\* untouched.  In _get_google_ous a path whose org-unit does not exist is
\* left out, every later path is still looked up, the org-units found are
\* kept in path order, and no run fails with a not-found fault.
C24_NotFoundIsSkipped ==
    /\ (mode = "groups" /\ pc \in {"collected", "raised"}) =>
        /\ result.error \notin {ValueError, HttpError}
        /\ \A i \in 1..Len(faults) : faults[i].kind = "not_found"
        /\ pc = "collected" =>
            {google_users[k].primary_email : k \in 1..Len(google_users)}
                = ReachedEmails
    /\ mode = "run" =>
        /\ \A i \in 1..Len(faults) :
            faults[i].kind = "not_found" => faults[i].call = "get_ou"
        /\ (pc = "done" /\ ~result.success) =>
            faults[Len(faults)].kind # "not_found"
        /\ (config.create_teams /\ ~config.flatten_ous
                /\ pc \in {"get_ous", "diff_teams", "apply_teams",
                           "preview_teams"}) =>
            /\ OuLookups = (IF pc = "get_ous" THEN idx - 1 ELSE Len(sync_ous))
            /\ \A k \in 1..OuLookups :
                calls[OuCallAt(k)].payload.ou_path = sync_ous[k]
            /\ google_ous =
                LET found == SelectSeq([k \in 1..OuLookups |-> k],
                                       LAMBDA k : ~OuNotFound(k))
                IN  [j \in 1..Len(found) |-> RunOU(sync_ous[found[j]])]

\* a missing top-level group, a missing member user and a missing nested
\* group were met and the user after them was collected
C24_Witness ==
    /\ mode = "groups"
    /\ pc = "collected"
    /\ sync_ous = <<"D", "A">>
    /\ directory.A = <<[email |-> "m", type |-> "USER"],
                       [email |-> "B", type |-> "GROUP"]>>
    /\ directory.B = <<[email |-> "D", type |-> "GROUP"],
                       [email |-> "u1", type |-> "USER"]>>
    /\ Len(faults) = 2
    /\ google_users = <<UserTable.u1>>

(***************************************************************************)
(* Well-formedness of the operations (specification Spec).                 *)
(***************************************************************************)
\* C25: every operation of a computed list carries the records its action
\* requires and no others.  A create has a target record and no existing
\* record, a suspend has an existing record and no target record, an update
\* has both; user operations are creates, updates or suspends whose target
\* record is the mapped source user, team operations are creates or updates.
C25_OperationsWellFormed ==
    /\ \A k \in 1..Len(user_diffs) :
        LET d == user_diffs[k]
        IN  /\ d.action \in {"create", "update", "suspend"}
            /\ d.action = "create" =>
                /\ d.target_scim_user = GoogleUserToScim(d.google_user)
                /\ d.existing_scim_user = None
            /\ d.action = "update" =>
                /\ d.target_scim_user = GoogleUserToScim(d.google_user)
                /\ d.existing_scim_user # None
            /\ d.action = "suspend" =>
                /\ d.target_scim_user = None
                /\ d.google_user = None
                /\ d.existing_scim_user # None
    /\ \A k \in 1..Len(team_diffs) :
        LET d == team_diffs[k]
        IN  /\ d.action \in {"create", "update"}
            /\ d.target_team # None
            /\ d.action = "create" => d.existing_team = None
            /\ d.action = "update" => d.existing_team # None

\* a run computed a user list with creates and a suspend and a team list
\* with a create and an update
C25_Witness ==
    /\ pc \in {"apply_teams", "preview_teams"}
    /\ Len(user_diffs) = 3
    /\ \A a \in {"create", "suspend"} :
        \E k \in 1..Len(user_diffs) : user_diffs[k].action = a
    /\ \A a \in {"create", "update"} :
        \E k \in 1..Len(team_diffs) : team_diffs[k].action = a

(***************************************************************************)
(* The key of the target index (SpecDiff).                                 *)
(***************************************************************************)
\* the entries of a target user that are marked primary
MarkedPrimary(user) == {i \in 1..Len(user.emails) : user.emails[i].primary}

\* the key the claim gives a target user
PrimaryKey(user) ==
    IF MarkedPrimary(user) # {}
    THEN user.emails[CHOOSE i \in MarkedPrimary(user) :
                        \A j \in MarkedPrimary(user) : i <= j].value
    ELSE IF Len(user.emails) >= 1 THEN user.emails[1].value
    ELSE <<>>

\* C26: diffUsers keys every target user by the value of its first email
\* entry marked primary and, when none is marked, by the value of its first
\* entry.  A source user is created exactly when no target user has its
\* email as key, the existing record of an update has the source email as
\* key, and a target user is suspended exactly when it is active and its
\* key is the email of no source user, so a target user that is matched is
\* never suspended.
C26_PrimaryEmailIndex ==
    UserDiffed =>
        /\ \A i \in 1..Len(google_users) :
            (\E k \in 1..Len(user_diffs) :
                /\ user_diffs[k].action = "create"
                /\ user_diffs[k].google_user = google_users[i])
            <=> (\A j \in 1..Len(github_users) :
                    PrimaryKey(github_users[j]) # google_users[i].primary_email)
        /\ \A k \in 1..Len(user_diffs) :
            user_diffs[k].action = "update" =>
                PrimaryKey(user_diffs[k].existing_scim_user)
                    = user_diffs[k].google_user.primary_email
        /\ \A j \in 1..Len(github_users) :
            (\E k \in 1..Len(user_diffs) :
                /\ user_diffs[k].action = "suspend"
                /\ user_diffs[k].existing_scim_user = github_users[j])
            <=> /\ github_users[j].active
                /\ PrimaryKey(github_users[j]) \notin SourceEmails

\* one target user whose marked entry is not its first entry and one with
\* no marked entry are both matched by their key: two updates, no create,
\* no suspend
C26_Witness ==
    /\ UserDiffed
    /\ Len(google_users) = 2
    /\ Len(github_users) = 2
    /\ MarkedPrimary(github_users[1]) = {2}
    /\ github_users[1].emails[1].value # github_users[1].emails[2].value
    /\ MarkedPrimary(github_users[2]) = {}
    /\ Len(github_users[2].emails) = 1
    /\ Len(user_diffs) = 2
    /\ \A k \in 1..2 : user_diffs[k].action = "update"

(***************************************************************************)
(* SpecCompare: SyncEngine._teams_differ on pairs of teams.                *)
(***************************************************************************)
\* the longest member list of a compared team
MaxTeamMembers == 3

ComparedTeams ==
    {GitHubTeam(n, n, d, m) :
        n \in {<<"a">>, <<"b">>},
        d \in {NoneStr, <<"d">>},
        m \in SeqsUpTo({<<"x">>, <<"y">>}, MaxTeamMembers)}

CompareInit ==
    /\ pc = "start"
    /\ mode = "compare"
    /\ config = [create_teams |-> TRUE, flatten_ous |-> FALSE]
    /\ github_config \in {gc \in GitHubConfigs : gc.emu_username_suffix = <<>>}
    /\ hash_order = <<>>
    /\ \E existing \in ComparedTeams, target \in ComparedTeams :
        github_teams = <<existing, target>>
    /\ google_users = <<>>
    /\ github_users = <<>>
    /\ google_ous = <<>>
    /\ user_diffs = <<>>
    /\ team_diffs = <<>>
    /\ stats = ZeroStats
    /\ Idle

\* differ = self._teams_differ(existing, target)
CompareTeams ==
    /\ pc = "start"
    /\ mode = "compare"
    /\ result' = [differ |-> TeamsDiffer(github_teams[1], github_teams[2])]
    /\ pc' = "compared"
    /\ UNCHANGED <<inputVars, otherVars, argVars, google_users, github_users,
                   google_ous, github_teams, user_diffs, team_diffs, idx, stats,
                   calls, faults, warnings>>

CompareNext == CompareTeams

SpecCompare == CompareInit /\ [][CompareNext]_vars

\* the usernames that occur in the member list of a team
MemberSet(team) == {m \in {<<"x">>, <<"y">>} :
                        \E i \in 1..Len(team.members) : team.members[i] = m}

\* C27: _teams_differ compares the member lists as sets.  Two teams with
\* the same name and description differ exactly when the sets of usernames
\* in their member lists differ, so a list that is a permutation of the
\* other or repeats entries of it does not make them differ; and teams
\* with different names or descriptions always differ.
C27_MembersComparedAsSets ==
    (mode = "compare" /\ pc = "compared") =>
        LET existing == github_teams[1]
            target   == github_teams[2]
        IN  IF existing.name = target.name
                /\ existing.description = target.description
            THEN result.differ <=> MemberSet(existing) # MemberSet(target)
            ELSE result.differ

\* the target lists the members of the existing team in another order and
\* one of them twice: the teams do not differ
C27_Witness ==
    /\ mode = "compare"
    /\ pc = "compared"
    /\ github_teams[1].name = github_teams[2].name
    /\ github_teams[1].description = github_teams[2].description
    /\ github_teams[1].members = <<<<"x">>, <<"y">>>>
    /\ github_teams[2].members = <<<<"y">>, <<"x">>, <<"y">>>>
    /\ ~result.differ

(***************************************************************************)
(* SpecMap: SyncEngine._google_user_to_scim on single source users.        *)
(***************************************************************************)
MappedEmails ==
    {<<"a", ".", "b", ".", "c", "@", "x", ".", "y">>,
     <<"a", ".", ".", "b", "@", "x">>,
     <<"a", "-", "b", "@", "x">>,
     <<"A", "_", "b", "@", "x">>,
     <<"b", ".", "@", "x">>,
     <<"c", "@", "x">>}

MappedUsers ==
    {[GoogleUser(e, s, RootPath) EXCEPT !.given_name = n[1],
                                        !.family_name = n[2],
                                        !.full_name = n[3]] :
        e \in MappedEmails,
        s \in BOOLEAN,
        n \in {<<"Given", "Family", "Given Family">>,
               <<"Ann", "Bo", "Dr Ann Bo">>,
               <<"", "", "">>}}

MapInit ==
    /\ pc = "start"
    /\ mode = "map"
    /\ config = [create_teams |-> FALSE, flatten_ous |-> FALSE]
    /\ github_config \in GitHubConfigs
    /\ hash_order = <<>>
    /\ \E user \in MappedUsers : google_users = <<user>>
    /\ github_users = <<>>
    /\ google_ous = <<>>
    /\ github_teams = <<>>
    /\ user_diffs = <<>>
    /\ team_diffs = <<>>
    /\ stats = ZeroStats
    /\ Idle

\* scim_user = self._google_user_to_scim(google_user)
MapUser ==
    /\ pc = "start"
    /\ mode = "map"
    /\ github_users' = <<GoogleUserToScim(google_users[1])>>
    /\ pc' = "mapped"
    /\ UNCHANGED <<inputVars, otherVars, argVars, google_users, google_ous,
                   github_teams, user_diffs, team_diffs, idx, stats, calls,
                   faults, warnings, result>>

MapNext == MapUser

SpecMap == MapInit /\ [][MapNext]_vars

\* the characters of an email before its "@"
LocalPart(email) ==
    SubSeq(email, 1, (CHOOSE i \in 1..Len(email) : email[i] = "@") - 1)

\* C28: the candidate record of a source user.  Its username is the local
\* part of the source email, character by character, with "-" wherever the
\* local part has "." and, when a managed-user suffix is configured,
\* followed by "_" and the suffix; it has exactly one email entry, marked
\* primary, whose value is the source email; its name fields are the given,
\* family and full name of the source; active is the negation of suspended;
\* the external id is the source id.
C28_MapUser ==
    (mode = "map" /\ pc = "mapped") =>
        LET g      == google_users[1]
            t      == github_users[1]
            local  == LocalPart(g.primary_email)
            suffix == github_config.emu_username_suffix
        IN  /\ Len(t.user_name) =
                    Len(local) + (IF suffix = <<>> THEN 0 ELSE 1 + Len(suffix))
            /\ \A i \in 1..Len(local) :
                t.user_name[i] = (IF local[i] = "." THEN "-" ELSE local[i])
            /\ suffix # <<>> =>
                /\ t.user_name[Len(local) + 1] = "_"
                /\ SubSeq(t.user_name, Len(local) + 2, Len(t.user_name)) = suffix
            /\ Len(t.emails) = 1
            /\ t.emails[1].value = g.primary_email
            /\ t.emails[1].primary
            /\ t.name.givenName = g.given_name
            /\ t.name.familyName = g.family_name
            /\ t.name.formatted = g.full_name
            /\ t.active = ~g.suspended
            /\ t.external_id = g.id

\* a suspended user whose local part has two dots, mapped with a suffix
C28_Witness ==
    /\ mode = "map"
    /\ pc = "mapped"
    /\ github_config.emu_username_suffix = <<"e">>
    /\ google_users[1].primary_email
            = <<"a", ".", "b", ".", "c", "@", "x", ".", "y">>
    /\ google_users[1].suspended
    /\ google_users[1].given_name = "Ann"
    /\ github_users[1].user_name = <<"a", "-", "b", "-", "c", "_", "e">>
    /\ ~github_users[1].active
    /\ github_users[1].name.formatted = "Dr Ann Bo"

(***************************************************************************)
(* Team synchronization switched off (specification Spec).                 *)
(***************************************************************************)
TeamCounters ==
    {"teams_to_create", "teams_to_update", "teams_up_to_date", "teams_created",
     "teams_updated", "teams_failed"}

\* C29: with create_teams = false a run never fetches the target teams,
\* never looks up an org-unit, never calls create_group or update_group,
\* counts nothing about teams and returns an empty team list, while the
\* user list is the one the user diff computes from the two fetched
\* listings and, in a run that applies, every operation of it makes its
\* call before the run returns.
C29_TeamsDisabled ==
    (mode = "run" /\ ~config.create_teams) =>
        /\ CallsNamed({"get_groups", "get_ou"} \cup TeamMutations) = {}
        /\ team_diffs = <<>>
        /\ github_teams = <<>>
        /\ google_ous = <<>>
        /\ \A c \in TeamCounters : stats[c] = 0
        /\ pc \in {"idle", "get_all_users", "get_users", "diff_users",
                   "apply_users", "preview_users", "teams", "return", "done"}
        /\ (pc = "done" /\ result.success) =>
            /\ result.team_diffs = <<>>
            /\ result.user_diffs = user_diffs
            /\ user_diffs =
                CalculateUserDiffs(google_users, github_users, ZeroStats).diffs
            /\ Cardinality(CallsNamed(UserMutations)) =
                    (IF dry_run THEN 0 ELSE Cardinality(UserOpsWithCall))
            /\ Len(calls) = 2 + Cardinality(CallsNamed(UserMutations))

\* a run without team synchronization applied two user operations and
\* returned
C29_Witness ==
    /\ mode = "run"
    /\ ~config.create_teams
    /\ pc = "done"
    /\ result.success
    /\ ~dry_run
    /\ sync_ous # <<>>
    /\ Len(user_diffs) >= 2
    /\ Cardinality(CallsNamed(UserMutations)) = Len(user_diffs)
    /\ result.stats.users_created >= 1

(***************************************************************************)
(* SpecSlug: the three derivations of a team slug from a name.             *)
(***************************************************************************)
\* the longest name a slug is derived from
MaxNameLen == 3

NameChars == {"A", "B", "b", " ", "_", "-", "."}

SlugNames == UNION {[1..k -> NameChars] : k \in 1..MaxNameLen}

\* GitHubTeam.from_google_group (models.py)
FromGoogleGroup(google_group) ==
    GitHubTeam(google_group.name,
               Replace(Replace(Lower(google_group.name), " ", "-"), "_", "-"),
               google_group.description,
               <<>>)

\* the slugs _calculate_flattened_team_diffs derives for a user whose
\* org-unit is the one of that name under the root
FlattenedSlugs(name) ==
    LET memberships == TeamMemberships(
                          <<GoogleUser(E1, FALSE, RootPath \o <<"/">> \o name)>>,
                          1, <<>>)
    IN  [k \in 1..Len(memberships) |-> memberships[k].slug]

SlugInit ==
    /\ pc = "start"
    /\ mode = "slug"
    /\ config = [create_teams |-> TRUE, flatten_ous |-> FALSE]
    /\ github_config \in {gc \in GitHubConfigs : gc.emu_username_suffix = <<>>}
    /\ hash_order = <<>>
    /\ \E name \in SlugNames : google_ous = <<GoogleOU(name, <<"d">>, <<>>)>>
    /\ google_users = <<>>
    /\ github_users = <<>>
    /\ github_teams = <<>>
    /\ user_diffs = <<>>
    /\ team_diffs = <<>>
    /\ stats = ZeroStats
    /\ Idle

\* the slug of one name by each derivation, and the slug of that slug
MapTeamSlug ==
    /\ pc = "start"
    /\ mode = "slug"
    /\ LET name == google_ous[1].name
           slug == OuToTeamSlug(google_ous[1])
       IN  result' =
            [ou    |-> slug,
             group |-> FromGoogleGroup([id |-> name, name |-> name,
                                        email |-> name,
                                        description |-> NoneStr,
                                        member_emails |-> <<>>]).slug,
             flat  |-> FlattenedSlugs(name),
             again |-> OuToTeamSlug([google_ous[1] EXCEPT !.name = slug])]
    /\ pc' = "slugged"
    /\ UNCHANGED <<inputVars, otherVars, argVars, google_users, github_users,
                   google_ous, github_teams, user_diffs, team_diffs, idx, stats,
                   calls, faults, warnings>>

SlugNext == MapTeamSlug

SpecSlug == SlugInit /\ [][SlugNext]_vars

\* the character the claim gives the slug for a character of the name
SlugChar(c) ==
    CASE c \in {" ", "_"} -> "-"
      [] c = "A" -> "a"
      [] c = "B" -> "b"
      [] OTHER -> c

\* C30: the slug of a name has the length of the name and, place by place,
\* "-" where the name has a space or an underscore and the lowercased
\* character elsewhere, so repeated separators stay repeated;
\* GitHubTeam.from_google_group, _ou_to_team_slug and the flattening mode
\* derive the same slug from the same name; the slug of a slug is that slug.
C30_MapTeamSlug ==
    (mode = "slug" /\ pc = "slugged") =>
        LET name == google_ous[1].name
        IN  /\ Len(result.ou) = Len(name)
            /\ \A i \in 1..Len(name) : result.ou[i] = SlugChar(name[i])
            /\ result.group = result.ou
            /\ result.flat = <<result.ou>>
            /\ result.again = result.ou

\* a name with an upper-case letter, a space and an underscore in a row
C30_Witness ==
    /\ mode = "slug"
    /\ pc = "slugged"
    /\ google_ous[1].name = <<"A", " ", "_">>
    /\ result.ou = <<"a", "-", "-">>
    /\ result.group = <<"a", "-", "-">>
    /\ result.flat = <<<<"a", "-", "-">>>>

(***************************************************************************)
(* SpecSuspended: runs of synchronize, team synchronization off, over a    *)
(* source that holds suspended users.                                      *)
(***************************************************************************)
SuspendedInit ==
    /\ pc = "idle"
    /\ mode = "run_suspended"
    /\ config = [create_teams |-> FALSE, flatten_ous |-> FALSE]
    /\ github_config \in {gc \in GitHubConfigs : gc.emu_username_suffix = <<>>}
    /\ hash_order = <<>>
    /\ stats = ZeroStats
    /\ google_users = <<>>
    /\ github_users = <<>>
    /\ google_ous = <<>>
    /\ github_teams = <<>>
    /\ user_diffs = <<>>
    /\ team_diffs = <<>>
    /\ Idle

SuspendedNext ==
    \/ Synchronize
    \/ GetAllUsersOk
    \/ GetAllUsersFault
    \/ GetUsersOk
    \/ GetUsersFault
    \/ CalcUserDiffs
    \/ ApplyUserChangeOk
    \/ ApplyUserChangeFault
    \/ ApplyUsersDone
    \/ PreviewUserChanges
    \/ TeamPhase
    \/ ReturnSuccess

SpecSuspended == SuspendedInit /\ [][SuspendedNext]_vars

\* the target users whose key is an email
KeyedBy(email) == {j \in 1..Len(github_users) : PrimaryKey(github_users[j]) = email}

\* the operations of the list computed for a source user
OpsFor(google_user, action) ==
    {k \in 1..Len(user_diffs) :
        /\ user_diffs[k].action = action
        /\ user_diffs[k].google_user = google_user}

\* C31: a suspended source user is synchronized like any other.  No run
\* skips a user (users_skipped stays 0 and, once fetched, the suspended
\* users are in the list that is diffed); no suspend operation is about a
\* target user keyed by the email of a suspended source user; a suspended
\* source user absent from the target gets a create whose candidate is
\* inactive, one whose target record is active gets an update whose
\* candidate is inactive, and one whose target record is inactive and equal
\* to the candidate gets no operation.
C31_SuspendedSourceUsers ==
    /\ stats.users_skipped = 0
    /\ UsersDiffed =>
        \A i \in 1..Len(google_users) :
            LET g == google_users[i]
                matches == KeyedBy(g.primary_email)
            IN  g.suspended =>
                /\ \A k \in 1..Len(user_diffs) :
                    user_diffs[k].action = "suspend" =>
                        PrimaryKey(user_diffs[k].existing_scim_user)
                            # g.primary_email
                /\ matches = {} =>
                    /\ Cardinality(OpsFor(g, "create")) = 1
                    /\ \A k \in OpsFor(g, "create") :
                        ~user_diffs[k].target_scim_user.active
                /\ (\E j \in matches :
                        /\ \A l \in matches : l <= j
                        /\ github_users[j].active) =>
                    /\ Cardinality(OpsFor(g, "update")) = 1
                    /\ \A k \in OpsFor(g, "update") :
                        ~user_diffs[k].target_scim_user.active
                /\ (\E j \in matches :
                        /\ \A l \in matches : l <= j
                        /\ [github_users[j] EXCEPT !.id = NoId]
                                = GoogleUserToScim(g)) =>
                    /\ OpsFor(g, "create") = {}
                    /\ OpsFor(g, "update") = {}

\* a run fetched two suspended source users, one absent from the target
\* and one active there, and made a create_user and an update_user call
\* with inactive candidates
C31_Witness ==
    /\ mode = "run_suspended"
    /\ pc = "done"
    /\ result.success
    /\ ~dry_run
    /\ Len(google_users) = 2
    /\ \A i \in 1..2 : google_users[i].suspended
    /\ \E k \in 1..Len(calls) :
        calls[k].name = "create_user" /\ ~calls[k].payload.active
    /\ \E k \in 1..Len(calls) :
        calls[k].name = "update_user" /\ ~calls[k].payload.active
    /\ result.stats.users_skipped = 0

\* the operations of the list about an existing target record
OpsAbout(existing) ==
    {k \in 1..Len(user_diffs) : user_diffs[k].existing_scim_user = existing}

\* C32: with source primary emails unique within the fetch, after diffUsers
\* every source user is carried by at most one operation, every existing
\* target user is the existing record of at most one operation, and no
\* target user is the existing record of both an update and a suspend; the
\* target listing may hold several users with one primary email.
C32_OneOperationPerUser ==
    UserDiffed =>
        /\ \A i \in 1..Len(google_users) :
            Cardinality(OpsOnSource(google_users[i])) <= 1
        /\ \A j \in 1..Len(github_users) :
            /\ Cardinality(OpsAbout(github_users[j])) <= 1
            /\ ~ /\ OpsOnExisting("update", github_users[j]) # {}
                 /\ OpsOnExisting("suspend", github_users[j]) # {}

\* two target users share the primary email of a source user: the later one
\* is updated, the earlier one gets no operation
C32_Witness ==
    /\ UserDiffed
    /\ Len(github_users) = 2
    /\ GetPrimaryEmail(github_users[1]) = GetPrimaryEmail(github_users[2])
    /\ \E i \in 1..Len(google_users) :
        google_users[i].primary_email = GetPrimaryEmail(github_users[1])
    /\ OpsOnExisting("update", github_users[2]) # {}
    /\ OpsAbout(github_users[1]) = {}

\* the create operations of the list
Creates == {k \in 1..Len(user_diffs) : user_diffs[k].action = "create"}

\* target users as the data model has them: exactly one entry marked primary
WellFormedTargets ==
    \A j \in 1..Len(github_users) :
        Cardinality(MarkedPrimary(github_users[j])) = 1

\* C33: with pairwise distinct source primary emails (and target users that
\* have exactly one primary email each), after diffUsers no two create
\* operations carry the same username, and no create operation carries the
\* username of an existing target user whose primary email is another one.
C33_CreateUsernamesUnique ==
    (UserDiffed /\ DistinctEmails(google_users) /\ WellFormedTargets) =>
        /\ \A k, l \in Creates :
            user_diffs[k].target_scim_user.user_name
                = user_diffs[l].target_scim_user.user_name => k = l
        /\ \A k \in Creates : \A j \in 1..Len(github_users) :
            GetPrimaryEmail(github_users[j])
                    # user_diffs[k].google_user.primary_email =>
                github_users[j].user_name
                    # user_diffs[k].target_scim_user.user_name

\* the source org-units have pairwise distinct names
DistinctOUNames ==
    \A i, j \in 1..Len(google_ous) :
        google_ous[i].name = google_ous[j].name => i = j

\* C34: after diffTeams, in OU mode (over org-units with pairwise distinct
\* names) and in flattening mode, the operation list holds at most one
\* operation per team slug, also when two org-unit names or two path
\* segments that differ map to the same slug.
C34_OneOperationPerSlug ==
    (pc = "diffed" /\ mode \in {"ou", "flat"} /\ DistinctOUNames) =>
        \A k, l \in 1..Len(team_diffs) :
            team_diffs[k].target_team.slug = team_diffs[l].target_team.slug
                => k = l

\* the number of candidate teams diffTeams considers: one per org-unit of
\* the list in OU mode, one per slug of a path segment in flattening mode
CandidatesConsidered ==
    IF mode = "ou" THEN Len(google_ous)
    ELSE Len(CandidateTeams)

\* C35: after diffTeams in either mode (team creation enabled),
\* teams_to_create + teams_to_update + teams_up_to_date is the number of
\* candidate teams considered, and teams_to_create + teams_to_update is the
\* length of the operation list; a candidate equal to its existing team is
\* counted as up to date in flattening mode as in OU mode.
C35_TeamDiffAccounting ==
    (pc = "diffed" /\ mode \in {"ou", "flat"} /\ config.create_teams) =>
        /\ stats.teams_to_create + stats.teams_to_update
                + stats.teams_up_to_date = CandidatesConsidered
        /\ stats.teams_to_create + stats.teams_to_update = Len(team_diffs)

\* C36: the success flag of the returned result tells whether a fault
\* reached the handler of synchronize: it is true exactly when no fault of
\* the run was one that no inner handler takes, and then the error field is
\* absent; the faults of user and team mutation calls, which the applicators
\* count in users_failed and teams_failed, leave it true.
C36_SuccessReflectsBoundaryFaults ==
    pc = "done" =>
        /\ result.success <=> (\A i \in 1..Len(faults) : ~Unhandled(faults[i]))
        /\ result.success => result.error = NoneStr
        /\ ~result.success => result.error # NoneStr
        /\ (\A i \in 1..Len(faults) : faults[i].call \in MutatingCalls) =>
                result.success

\* a run in which every user operation and a team operation failed returned
\* success = true without an error
C36_Witness ==
    /\ pc = "done"
    /\ result.success
    /\ result.error = NoneStr
    /\ Len(user_diffs) >= 2
    /\ result.stats.users_failed = Len(user_diffs)
    /\ result.stats.teams_failed > 0
    /\ result.stats.users_created + result.stats.users_updated
            + result.stats.users_suspended = 0

\* the usernames of the fetched source users
SourceUsernames ==
    {EmailToUsername(google_users[i].primary_email) : i \in 1..Len(google_users)}

\* the members of a sequence or of a set of usernames
Members(team_members) == {team_members[i] : i \in 1..Len(team_members)}

\* C37: after diffTeams in either mode every member of every candidate team
\* is the mapped username of a fetched source user.  In OU mode the
\* candidate of an org-unit has one member per member email that a fetched
\* source user has, in order, and none for the other emails; in flattening
\* mode the candidates come from the paths of the fetched users alone.
C37_MembersAreFetchedUsers ==
    (pc = "diffed" /\ mode \in {"ou", "flat"}) =>
        /\ \A k \in 1..Len(team_diffs) :
            Members(team_diffs[k].target_team.members) \subseteq SourceUsernames
        /\ mode = "ou" =>
            /\ \A i \in 1..Len(google_ous) :
                Members(GithubMembers(google_users, google_ous[i].user_emails, 1))
                    \subseteq SourceUsernames
            /\ \A k \in 1..Len(team_diffs) :
                LET kept == SelectSeq(team_diffs[k].google_ou.user_emails,
                                      LAMBDA e : e \in SourceEmails)
                IN  team_diffs[k].target_team.members
                        = [j \in 1..Len(kept) |-> EmailToUsername(kept[j])]
        /\ mode = "flat" =>
            \A k \in 1..Len(CandidateTeams) :
                CandidateTeams[k].members \subseteq SourceUsernames

\* OU mode: an operation for an org-unit with two member emails, one of a
\* fetched user and one of no fetched user, has a single member
C37_Witness ==
    /\ pc = "diffed"
    /\ mode = "ou"
    /\ \E k \in 1..Len(team_diffs) :
        /\ Len(team_diffs[k].google_ou.user_emails) = 2
        /\ \E j \in 1..2 :
            team_diffs[k].google_ou.user_emails[j] \notin SourceEmails
        /\ Len(team_diffs[k].target_team.members) = 1

(***************************************************************************)
(* SpecPreviewOps: the two preview steps on operation lists of any shape,  *)
(* together with the runs of synchronize.                                  *)
(***************************************************************************)
MaxPreviewOps == 2

\* user operations, well formed and lacking the records their action needs
PreviewUserOps ==
    LET g == GoogleUser(E1, FALSE, RootPath)
        c == GoogleUserToScim(g)
        h == [c EXCEPT !.id = 1]
    IN  { UserDiff("create", g, None, c),
          UserDiff("update", g, h, c),
          UserDiff("suspend", None, h, None),
          UserDiff("create", None, None, None),
          UserDiff("update", None, h, c),
          UserDiff("suspend", None, None, None),
          UserDiff("delete", None, None, None) }

PreviewTeamOps ==
    LET t == GitHubTeam(<<"c">>, <<"c">>, <<"d">>, <<>>)
    IN  { TeamDiff("create", None, None, t),
          TeamDiff("update", None, [t EXCEPT !.id = 1], t),
          TeamDiff("create", None, None, None),
          TeamDiff("update", None, [t EXCEPT !.id = 1], None) }

PreviewOpsInit ==
    /\ pc = "preview_users"
    /\ mode = "preview_ops"
    /\ config = [create_teams |-> FALSE, flatten_ous |-> FALSE]
    /\ github_config \in {gc \in GitHubConfigs : gc.emu_username_suffix = <<>>}
    /\ hash_order = <<>>
    /\ dry_run = TRUE
    /\ sync_ous = <<>>
    /\ sync_individual = <<>>
    /\ google_users = <<>>
    /\ github_users = <<>>
    /\ google_ous = <<>>
    /\ github_teams = <<>>
    /\ user_diffs \in SeqsUpTo(PreviewUserOps, MaxPreviewOps)
    /\ team_diffs \in SeqsUpTo(PreviewTeamOps, MaxPreviewOps)
    /\ stats \in {ZeroStats, Inc(Inc(ZeroStats, "users_to_create"), "teams_to_create")}
    /\ idx = 0
    /\ calls = <<>>
    /\ faults = <<>>
    /\ warnings = 0
    /\ result = None
    /\ runs = <<>>
    /\ directory = <<>>
    /\ nested_groups = <<>>

\* the caller goes on from the user preview to the team preview
GoToTeamPreview ==
    /\ pc = "teams"
    /\ mode = "preview_ops"
    /\ pc' = "preview_teams"
    /\ UNCHANGED <<inputVars, otherVars, argVars, google_users, github_users,
                   google_ous, github_teams, user_diffs, team_diffs, idx, stats,
                   calls, faults, warnings, result>>

PreviewOpsNext == GoToTeamPreview \/ Next

SpecPreviewOps == (PreviewOpsInit \/ Init) /\ [][PreviewOpsNext]_vars

\* the counters of applied and failed operations
AppliedCounters ==
    {"users_created", "users_updated", "users_suspended", "users_failed",
     "teams_created", "teams_updated", "teams_failed"}

\* what a step taken where a preview stands leaves alone
PreviewFrame ==
    pc \in {"preview_users", "preview_teams"} =>
        /\ stats' = stats
        /\ user_diffs' = user_diffs
        /\ team_diffs' = team_diffs
        /\ calls' = calls
        /\ faults' = faults
        /\ warnings' = warnings
        /\ result' = None
        /\ pc' \in {"teams", "return"}

\* C38: a preview step changes nothing.  A step taken where
\* _preview_user_changes or _preview_team_changes stands, whatever the
\* operation lists hold, leaves the statistics, the two operation lists, the
\* call log and the fault log as they are and ends in no result; and in a
\* dry run of synchronize the counters of applied and failed operations are
\* 0 throughout while, once the lists are computed, the to-create, to-update
\* and to-suspend counters count the operations of the lists.
C38_PreviewChangesNothing ==
    /\ [][PreviewFrame]_vars
    /\ [](mode = "run" /\ dry_run =>
            /\ \A c \in AppliedCounters : stats[c] = 0
            /\ pc \in {"preview_users", "teams"} =>
                /\ stats.users_to_create = CountActions(user_diffs, "create")
                /\ stats.users_to_update = CountActions(user_diffs, "update")
                /\ stats.users_to_suspend = CountActions(user_diffs, "suspend")
            /\ pc \in {"preview_teams", "return"} =>
                /\ stats.teams_to_create = CountActions(team_diffs, "create")
                /\ stats.teams_to_update = CountActions(team_diffs, "update"))

\* both previews ran over lists that hold a create without any record and
\* an update without a candidate, and the statistics are as they were
C38_Witness ==
    /\ mode = "preview_ops"
    /\ pc = "return"
    /\ \E k \in 1..Len(user_diffs) :
        user_diffs[k] = UserDiff("create", None, None, None)
    /\ \E k \in 1..Len(team_diffs) :
        team_diffs[k].action = "update" /\ team_diffs[k].target_team = None
    /\ stats = Inc(Inc(ZeroStats, "users_to_create"), "teams_to_create")
    /\ faults = <<>>
    /\ result = None

\* C39: the returned result accounts for every user mutation attempted.
\* When a run of synchronize is over, every create_user, update_user and
\* suspend_user call of the run is the call of an operation of the user
\* diff list of the returned result, also when the result has
\* success = false.
C39_ResultAccountsForMutations ==
    pc = "done" =>
        \A p \in 1..Len(calls) :
            IsUserMutation(calls[p]) =>
                \E k \in 1..Len(result.user_diffs) :
                    UserCall(result.user_diffs[k]) = calls[p]

=============================================================================
